---- MODULE Spec2Model ----
(***************************************************************************)
(* The Coordinator's message handlers (adapter/src/coord/message_handler.rs)*)
(* as a state machine.  One action per handler; a handler runs to          *)
(* completion in one step.  Spawned tasks are separate actions that only   *)
(* post messages to the mailbox.                                           *)
(***************************************************************************)
EXTENDS Integers, Sequences, FiniteSets, TLC

\* ------------------------------------------------------------------ bounds
MaxStmts == 3          \* write statements issued in a run
MaxGroupCommits == 1   \* group commits requested in a run
MaxFairStmts == 2      \* write statements issued in the runs checked for liveness
MaxObjects == 2        \* catalog objects a plan may depend on
MaxReads == 2          \* read transactions enqueued in a run
MaxFairReads == 1      \* the same, in the runs checked for liveness
MaxTs == 2             \* timestamps run from 0 to MaxTs * TsStep
TsStep == 600          \* ms between two timestamps of the model
MaxRequeues == 1       \* passes a read may stay pending for
MaxEvents == 3         \* cluster events the controller reports in a run
MaxPurified == 2       \* statements that go through purification in a run
MaxConnStmts == 2      \* CREATE/ALTER CONNECTION statements executed in a run
MaxBoots == 2          \* times the coordinator starts in a run
UsageIntervalMs == 1000  \* storage_usage_collection_interval of the deployment
MaxWatchSets == 3      \* watch sets installed in a run
MaxSubResponses == 1   \* subscribe responses the controller reports in a run
MaxMessages == 4       \* messages posted to the dispatch loop in a run
MaxReentryStmts == 1   \* statements of both kinds when the two kinds run side by side
MaxReplicas == 1       \* replicas that report metrics: ids 1..MaxReplicas
MaxMetric == 1         \* readings a process can report: 0..MaxMetric
MaxMetricsResponses == 3  \* metrics responses the controller produces in a run
MaxSeed == 5           \* seeds the next collection instant is computed for: 0..MaxSeed
MaxInterval == 6       \* collection intervals it is computed for: 1..MaxInterval
MaxNow == 13           \* current timestamps it is computed at: 0..MaxNow

\* Option::None of pop_front
NoDeferred == [kind |-> "None", seq |-> 0, validity |-> {}]

Objects == 1..MaxObjects

VARIABLES
    mailbox,                \* internal_cmd_rx: the messages in flight, in arrival order
    catalog,                \* ids of the objects the catalog holds
    write_lock_wait_group,  \* VecDeque<Deferred>
    write_lock,             \* the tokio mutex: TRUE while a guard is outstanding
    lock_tasks,             \* spawned tasks suspended in lock_owned()
    session_guard,          \* statements whose session owns a guard
    gc_guard,               \* guards owned by the group commit in progress
    next_seq,               \* arrival number of the next write request
    gc_requests,            \* group commits requested so far
    retired,                \* responses sent to clients, in order
    sequenced,              \* plans the grant handler handed to sequence_plan, in order
    dequeued,               \* arrival numbers of the entries popped by grants, in order
    last_grant,             \* what the last WriteLockGrant handler did
    pending_linearize_read_txns,  \* BTreeMap<ConnectionId, PendingReadTxn>
    oracle,                 \* read_ts of each timeline's timestamp oracle
    wakeup_tasks,           \* sleeping deferred_read_txns tasks: their delays in ms
    released,               \* responses sent to the client of each connection
    reads_enqueued,         \* reads enqueued so far
    last_pass,              \* what the last linearization pass did
    cluster_replica_statuses,        \* (cluster, replica) -> process -> {status, time}
    read_only,              \* controller.read_only()
    buffered_builtin_table_updates,  \* updates held back while read-only
    introspection,          \* multiplicity of each row of the replica-status relation
    events_sent,            \* cluster events the controller has reported
    last_event,             \* what the last ClusterEvent handler did
    next_id,                \* id the next object created gets
    stmts_submitted,        \* statements to purify executed so far
    purify_tasks,           \* purification tasks running
    executions,             \* times handle_execute_inner ran on each statement
    staged_retired,         \* responses sent for the purified statements, in order
    staged_sequenced,       \* purified plans handed to sequence_plan, in order
    last_purified,          \* what the last PurifiedStatementReady handler did
    conn_submitted,         \* connection statements executed so far
    validation_tasks,       \* connection validation tasks running
    secrets,                \* connections the secrets controller holds a secret for
    connections,            \* connections whose final stage committed to the catalog
    conn_retired,           \* responses sent for the connection statements, in order
    last_validation,        \* what the last connection validation handler did
    usage_sleep_tasks,      \* sleeping storage_usage_collection tasks: their delays
    usage_fetch_tasks,      \* storage_usage_fetch tasks scanning the storage engine
    usage_table_tasks,      \* storage_usage_update_table_updates tasks running
    storage_usage,          \* the usage records the catalog holds
    boots,                  \* times the coordinator has started
    organization_id,        \* the organization id of the deployment
    rx_dropped,             \* internal_cmd_rx has been dropped
    schedules,              \* the next-collection instants computed, with their now_ts
    failed_sends,           \* the sends that found the receiver gone
    installed_watch_sets,   \* BTreeMap<WatchSetId, (ConnectionId, WatchSetResponse)>
    connection_watch_sets,  \* BTreeMap<ConnectionId, BTreeSet<WatchSetId>>
    controller_responses,   \* responses the controller holds ready, in order
    watching,               \* watch sets the controller has not reported yet
    next_ws_id,             \* id the next watch set gets
    watch_responded,        \* watch sets whose response was acted on
    watch_panicked,         \* the handler met an unknown connection id
    last_finished,          \* ids of the last WatchSetFinished handled
    active_compute_sinks,   \* BTreeMap<GlobalId, ActiveComputeSink>: the subscribes
    introspection_subscribes,  \* ids of the introspection subscribes
    channel_open,           \* the client of each subscribe still holds its receiver
    sub_responses,          \* subscribe responses the controller has reported
    last_subscribe,         \* what the last SubscribeResponse handler did
    plain_posted,           \* messages posted to the dispatch loop so far
    active_handlers,        \* messages whose handle_message future is running
    handlers_started,       \* the handlers started, in order
    handlers_done,          \* the messages whose handler is done, in order
    pass_phase,             \* where message_linearize_reads is: idle, loop, retired, spawned
    pass_st,                \* the locals of the pass: shortest_wait, ready_txns, cache
    pass_todo,              \* connection ids the loop of the pass has yet to visit
    pass_taken,             \* the map std::mem::take handed to the loop
    pass_log,               \* what each iteration of the loop did, in order
    pass_released0,         \* the responses sent when the pass began
    pass_spawned,           \* the delays of the wake-ups the pass spawned
    not_ready_passes,       \* passes that found the read of each connection not ready
    last_schedule,          \* the last next-collection instant computed, with its inputs
    transient_replica_metadata,  \* per replica: no entry, the tombstone, or its metrics
    metrics_background,     \* update batches handed to the background table write
    metrics_relation,       \* the replica metrics relation: row -> multiplicity
    metrics_sent,           \* metrics responses the controller has produced
    last_metrics            \* what the last ComputeReplicaMetrics handler met and did

lockVars == <<write_lock_wait_group, write_lock, lock_tasks, session_guard, gc_guard,
              next_seq, gc_requests, retired, sequenced, dequeued, last_grant>>

readVars == <<pending_linearize_read_txns, oracle, wakeup_tasks, released, reads_enqueued,
              last_pass>>

clusterVars == <<cluster_replica_statuses, read_only, buffered_builtin_table_updates,
                 introspection, events_sent, last_event>>

stagedVars == <<next_id, stmts_submitted, purify_tasks, executions, staged_retired,
                staged_sequenced, last_purified>>

connVars == <<conn_submitted, validation_tasks, secrets, connections, conn_retired,
              last_validation>>

usageVars == <<usage_sleep_tasks, usage_fetch_tasks, usage_table_tasks, storage_usage,
               boots, organization_id, rx_dropped, schedules, failed_sends>>

watchVars == <<installed_watch_sets, connection_watch_sets, controller_responses,
               watching, next_ws_id, watch_responded, watch_panicked, last_finished>>

subVars == <<active_compute_sinks, introspection_subscribes, channel_open, sub_responses,
             last_subscribe>>

loopVars == <<plain_posted, active_handlers, handlers_started, handlers_done>>

passVars == <<pass_phase, pass_st, pass_todo, pass_taken, pass_log, pass_released0,
              pass_spawned, not_ready_passes>>

metricsVars == <<transient_replica_metadata, metrics_background, metrics_relation,
                 metrics_sent, last_metrics>>

\* What the actions of each protocol leave alone.
notLock == <<readVars, clusterVars, stagedVars, connVars, usageVars, watchVars, subVars,
             loopVars, passVars, last_schedule, metricsVars>>
notReads == <<catalog, lockVars, clusterVars, stagedVars, connVars, usageVars, watchVars,
              subVars, loopVars, passVars, last_schedule, metricsVars>>
notCluster == <<catalog, lockVars, readVars, stagedVars, connVars, usageVars, watchVars,
                subVars, loopVars, passVars, last_schedule, metricsVars>>
notStaged == <<lockVars, readVars, clusterVars, connVars, usageVars, watchVars, subVars,
               loopVars, passVars, last_schedule, metricsVars>>
notConn == <<lockVars, readVars, clusterVars, stmts_submitted, purify_tasks, executions,
             staged_retired, staged_sequenced, last_purified, usageVars, watchVars, subVars,
             loopVars, passVars, last_schedule, metricsVars>>
notUsage == <<catalog, lockVars, readVars, clusterVars, stagedVars, connVars, watchVars,
              subVars, loopVars, passVars, last_schedule, metricsVars>>
notWatch == <<catalog, lockVars, readVars, clusterVars, stagedVars, connVars, usageVars,
              subVars, loopVars, passVars, last_schedule, metricsVars>>
notSub == <<catalog, lockVars, readVars, clusterVars, stagedVars, connVars, usageVars,
            installed_watch_sets, connection_watch_sets, watching, next_ws_id,
            watch_responded, watch_panicked, last_finished, loopVars, passVars,
            last_schedule, metricsVars>>
notLoop == <<catalog, lockVars, readVars, clusterVars, stagedVars, connVars, usageVars,
             watchVars, subVars, passVars, last_schedule, metricsVars>>
notPass == <<catalog, lockVars, clusterVars, stagedVars, connVars, usageVars, watchVars,
             subVars, loopVars, last_schedule, metricsVars>>
notSchedule == <<catalog, lockVars, readVars, clusterVars, stagedVars, connVars, usageVars,
                 watchVars, subVars, loopVars, passVars,
                 metricsVars>>

notMetrics == <<catalog, lockVars, readVars, clusterVars, stagedVars, connVars, usageVars,
                installed_watch_sets, connection_watch_sets, watching, next_ws_id,
                watch_responded, watch_panicked, last_finished, subVars, loopVars,
                passVars, last_schedule>>

vars == <<mailbox, catalog, lockVars, readVars, clusterVars, stagedVars, connVars,
          usageVars, watchVars, subVars, loopVars, passVars, last_schedule,
          metricsVars>>

\* ------------------------------------------------------------- messages
WriteLockGrantMsg == [kind |-> "WriteLockGrant"]
GroupCommitApplyMsg(g) == [kind |-> "GroupCommitApply", write_lock_guard |-> g]

HeadIs(k) == mailbox /= <<>> /\ Head(mailbox).kind = k

\* internal_cmd_tx.send: the message is enqueued unless the receiver is gone.
send(mb, dropped, msg) == IF dropped THEN mb ELSE Append(mb, msg)

\* A mutation of after_send: the task unwraps the result of the send.
after_send_unwrap(dropped) == IF dropped THEN "panic" ELSE "done"

\* Lines 289-291, 321-323, 374-376, 908-911: the task ends whatever send returned.
after_send(dropped) == "done"

\* The sends that found the receiver gone, with how their task went on.
failed_send(log, task, dropped) ==
    IF dropped THEN log \cup {[task |-> task, outcome |-> after_send(dropped)]}
    ELSE log

\* ----------------------------------------------------------- write lock
\* PlanValidity::check: every dependency of the plan is still in the catalog.
PlanValidity_check(validity, cat) == validity \subseteq cat

\* Deferred::Plan and Deferred::GroupCommit; seq is the arrival number.
DeferredPlan(seq, validity) == [kind |-> "Plan", seq |-> seq, validity |-> validity]
DeferredGroupCommit(seq) == [kind |-> "GroupCommit", seq |-> seq, validity |-> {}]

\* A mutation of pop_front: takes the entry at the back.
pop_back(q) ==
    IF q = <<>> THEN [ready |-> NoDeferred, rest |-> <<>>]
    ELSE [ready |-> q[Len(q)], rest |-> SubSeq(q, 1, Len(q) - 1)]

\* A mutation of pop_front: a failed validity check consumes the next entry too.
pop_front_skip_invalid(q) ==
    IF q = <<>> THEN [ready |-> NoDeferred, rest |-> <<>>]
    ELSE IF Len(q) > 1 /\ q[1].kind = "Plan" /\ ~PlanValidity_check(q[1].validity, catalog)
         THEN [ready |-> q[1], rest |-> Tail(Tail(q))]
         ELSE [ready |-> q[1], rest |-> Tail(q)]

\* VecDeque::pop_front: the head, if any, and the queue without it.
pop_front(q) ==
    IF q = <<>> THEN [ready |-> NoDeferred, rest |-> <<>>]
    ELSE [ready |-> Head(q), rest |-> Tail(q)]

\* A mutation of grant_outcome: the validity check is skipped.
grant_outcome_unchecked(ready, cat) ==
    IF ready.kind = "None" THEN "empty"
    ELSE IF ready.kind = "Plan" THEN "sequence_plan"
    ELSE "group_commit"

\* The branch message_write_lock_grant takes for the popped entry.
grant_outcome(ready, cat) ==
    IF ready.kind = "None" THEN "empty"
    ELSE IF ready.kind = "Plan"
         THEN IF ~PlanValidity_check(ready.validity, cat) THEN "retire_err"
              ELSE "sequence_plan"
    ELSE "group_commit"

\* A mutation of grant_resolved_ids: the ids the statement resolved when it was
\* planned, which are the dependencies its validity carries, are passed on.
grant_resolved_ids_kept(ready) == ready.validity

\* Line 675: ResolvedIds(BTreeSet::new())
grant_resolved_ids(ready) == {}

\* A mutation of guard_dropped: the guard is also dropped when group commit is
\* initiated.
guard_dropped_at_group_commit(outcome) == outcome \in {"empty", "group_commit"}

\* A mutation of guard_dropped: the guard is dropped at the end of the handler
\* on every path, also when it was handed to a session or to group commit.
guard_dropped_always(outcome) == TRUE

\* A mutation of guard_dropped: the guard is kept alive when the queue is empty.
guard_dropped_never(outcome) == FALSE

\* Whether the handler's guard is dropped at the end of the handler: only when
\* nothing was popped; otherwise it has been moved into a session or group commit.
guard_dropped(outcome) == outcome = "empty"

\* Message::WriteLockGrant(write_lock_guard)
message_write_lock_grant ==
    /\ HeadIs("WriteLockGrant")
    /\ LET popped == pop_front(write_lock_wait_group)
           ready == popped.ready
           outcome == grant_outcome(ready, catalog)
       IN  /\ write_lock_wait_group' = popped.rest
           /\ dequeued' = IF ready.kind = "None" THEN dequeued
                          ELSE Append(dequeued, [seq |-> ready.seq,
                                                 depth |-> Len(write_lock_wait_group)])
           /\ session_guard' = IF outcome \in {"retire_err", "sequence_plan"}
                               THEN session_guard \cup {ready.seq} ELSE session_guard
           /\ retired' = IF outcome = "retire_err"
                         THEN Append(retired, [stmt |-> ready.seq, result |-> "ValidityErr"])
                         ELSE retired
           /\ sequenced' = IF outcome = "sequence_plan"
                           THEN Append(sequenced,
                                       [stmt |-> ready.seq,
                                        resolved_ids |-> grant_resolved_ids(ready),
                                        valid |-> PlanValidity_check(ready.validity, catalog)])
                           ELSE sequenced
           /\ gc_guard' = IF outcome = "group_commit" THEN gc_guard + 1 ELSE gc_guard
           /\ write_lock' = IF guard_dropped(outcome) THEN FALSE ELSE write_lock
           /\ last_grant' = [outcome |-> outcome, ready |-> ready]
    /\ mailbox' = Tail(mailbox)
    /\ UNCHANGED <<catalog, lock_tasks, next_seq, gc_requests>>
    /\ UNCHANGED notLock

\* Message::GroupCommitApply(.., write_lock_guard, ..): the guard dies with the handler.
group_commit_apply ==
    /\ HeadIs("GroupCommitApply")
    /\ write_lock' = IF Head(mailbox).write_lock_guard THEN FALSE ELSE write_lock
    /\ mailbox' = Tail(mailbox)
    /\ UNCHANGED <<catalog, write_lock_wait_group, lock_tasks, session_guard, gc_guard,
                   next_seq, gc_requests, retired, sequenced, dequeued, last_grant>>
    /\ UNCHANGED notLock

\* Write statements issued so far.
StmtsIssued == next_seq - 1 - gc_requests

\* defer_write: push the entry and spawn a task that waits for the lock.
defer_write(deferred) ==
    /\ write_lock_wait_group' = Append(write_lock_wait_group, deferred)
    /\ lock_tasks' = lock_tasks + 1

\* A write statement that finds the lock free takes it and is sequenced.
sequence_write_acquire ==
    /\ StmtsIssued < MaxStmts
    /\ ~write_lock
    /\ write_lock' = TRUE
    /\ session_guard' = session_guard \cup {next_seq}
    /\ next_seq' = next_seq + 1
    /\ UNCHANGED <<mailbox, catalog, write_lock_wait_group, lock_tasks, gc_guard,
                   gc_requests, retired, sequenced, dequeued, last_grant>>
    /\ UNCHANGED notLock

\* A write statement that finds the lock taken is deferred.
sequence_write_defer ==
    /\ StmtsIssued < MaxStmts
    /\ write_lock
    /\ \E validity \in {v \in SUBSET catalog : Cardinality(v) <= 1} :
          defer_write(DeferredPlan(next_seq, validity))
    /\ next_seq' = next_seq + 1
    /\ UNCHANGED <<mailbox, catalog, write_lock, session_guard, gc_guard,
                   gc_requests, retired, sequenced, dequeued, last_grant>>
    /\ UNCHANGED notLock

\* try_group_commit with the lock free: group commit proceeds holding the guard.
try_group_commit_acquire ==
    /\ gc_requests < MaxGroupCommits
    /\ ~write_lock
    /\ write_lock' = TRUE
    /\ gc_guard' = gc_guard + 1
    /\ gc_requests' = gc_requests + 1
    /\ next_seq' = next_seq + 1
    /\ UNCHANGED <<mailbox, catalog, write_lock_wait_group, lock_tasks, session_guard,
                   retired, sequenced, dequeued, last_grant>>
    /\ UNCHANGED notLock

\* try_group_commit with the lock taken: Deferred::GroupCommit is queued.
try_group_commit_defer ==
    /\ gc_requests < MaxGroupCommits
    /\ write_lock
    /\ defer_write(DeferredGroupCommit(next_seq))
    /\ gc_requests' = gc_requests + 1
    /\ next_seq' = next_seq + 1
    /\ UNCHANGED <<mailbox, catalog, write_lock, session_guard, gc_guard,
                   retired, sequenced, dequeued, last_grant>>
    /\ UNCHANGED notLock

\* The task spawned by defer_write: lock_owned() returns, the guard is posted.
lock_task_grant ==
    /\ lock_tasks > 0
    /\ ~write_lock
    /\ write_lock' = TRUE
    /\ lock_tasks' = lock_tasks - 1
    /\ mailbox' = Append(mailbox, WriteLockGrantMsg)
    /\ UNCHANGED <<catalog, write_lock_wait_group, session_guard, gc_guard,
                   next_seq, gc_requests, retired, sequenced, dequeued, last_grant>>
    /\ UNCHANGED notLock

\* The group commit in progress finishes its append and posts GroupCommitApply
\* with the guard it owns.
group_commit_post_apply ==
    /\ gc_guard > 0
    /\ gc_guard' = gc_guard - 1
    /\ mailbox' = Append(mailbox, GroupCommitApplyMsg(TRUE))
    /\ UNCHANGED <<catalog, write_lock_wait_group, write_lock, lock_tasks, session_guard,
                   next_seq, gc_requests, retired, sequenced, dequeued, last_grant>>
    /\ UNCHANGED notLock

\* A session ends its transaction: the guard it owns is dropped.
session_clear_transaction ==
    /\ \E s \in session_guard : session_guard' = session_guard \ {s}
    /\ write_lock' = FALSE
    /\ UNCHANGED <<mailbox, catalog, write_lock_wait_group, lock_tasks, gc_guard,
                   next_seq, gc_requests, retired, sequenced, dequeued, last_grant>>
    /\ UNCHANGED notLock

\* A client cancels: its deferred plan leaves the queue, its lock task stays.
cancel_pending_write ==
    /\ \E i \in 1..Len(write_lock_wait_group) :
          /\ write_lock_wait_group[i].kind = "Plan"
          /\ write_lock_wait_group' =
                 SubSeq(write_lock_wait_group, 1, i - 1)
                 \o SubSeq(write_lock_wait_group, i + 1, Len(write_lock_wait_group))
          /\ retired' = Append(retired, [stmt |-> write_lock_wait_group[i].seq,
                                         result |-> "Canceled"])
    /\ UNCHANGED <<mailbox, catalog, write_lock, lock_tasks, session_guard, gc_guard,
                   next_seq, gc_requests, sequenced, dequeued, last_grant>>
    /\ UNCHANGED notLock

\* DROP of an object some plan may depend on.
catalog_drop ==
    /\ \E o \in catalog : catalog' = catalog \ {o}
    /\ UNCHANGED <<mailbox, lockVars>>
    /\ UNCHANGED notLock

\* ------------------------------------------------------ read linearization
\* The connection ids with read transactions.
Conns == {1, 2}
Timelines == {"EpochMilliseconds", "User"}
\* The timestamps the model uses: multiples of TsStep milliseconds.
Timestamps == {k * TsStep : k \in 0..MaxTs}

\* Cap of the wake-up delay, in ms.
WAKEUP_CAP_MS == 1000

Min(a, b) == IF a < b THEN a ELSE b

\* No entry under a connection id.
NoTxn == [ctx |-> "None", timeline |-> "None", chosen_ts |-> 0, has_oracle_ts |-> FALSE,
          oracle_ts |-> 0, num_requeues |-> 0]

\* PendingReadTxn with TimestampContext::TimelineTimestamp {timeline, chosen_ts, oracle_ts}
TimelineTimestamp(timeline, chosen_ts, has_oracle_ts, oracle_ts) ==
    [ctx |-> "TimelineTimestamp", timeline |-> timeline, chosen_ts |-> chosen_ts,
     has_oracle_ts |-> has_oracle_ts, oracle_ts |-> oracle_ts, num_requeues |-> 0]

\* PendingReadTxn with TimestampContext::NoTimestamp
NoTimestamp ==
    [ctx |-> "NoTimestamp", timeline |-> "None", chosen_ts |-> 0, has_oracle_ts |-> FALSE,
     oracle_ts |-> 0, num_requeues |-> 0]

LinearizeReadsMsg == [kind |-> "LinearizeReads"]

\* The keys of the pending map, ascending: the order std::mem::take(..) iterates in.
RECURSIVE Ascending(_)
Ascending(S) ==
    IF S = {} THEN <<>>
    ELSE LET m == CHOOSE x \in S : \A y \in S : x <= y
         IN  <<m>> \o Ascending(S \ {m})

PendingConns(pending) == Ascending({c \in Conns : pending[c] /= NoTxn})

\* The state of a pass before its loop: lines 812-821.
InitPass ==
    [shortest_wait |-> 0,
     ready_txns |-> <<>>,
     pending |-> [c \in Conns |-> NoTxn],
     cached_oracle_ts |-> [t \in Timelines |-> [cached |-> FALSE, ts |-> 0]],
     oracle_reads |-> [t \in Timelines |-> 0],
     waits |-> <<>>]

\* A mutation of ready_by_snapshot: a timeline read without a snapshot is
\* compared with the oracle like any other.
ready_by_snapshot_strict(read_txn) ==
    \/ read_txn.ctx /= "TimelineTimestamp"
    \/ read_txn.has_oracle_ts /\ read_txn.chosen_ts <= read_txn.oracle_ts

\* A mutation of ready_by_snapshot: the snapshot of the read is not looked at.
ready_by_snapshot_unused(read_txn) ==
    \/ read_txn.ctx /= "TimelineTimestamp"
    \/ ~read_txn.has_oracle_ts

\* Lines 822-842 and 867-869: the read is ready without asking the oracle.
ready_by_snapshot(read_txn) ==
    \/ read_txn.ctx /= "TimelineTimestamp"
    \/ ~read_txn.has_oracle_ts
    \/ read_txn.chosen_ts <= read_txn.oracle_ts

\* A mutation of ready_by_oracle: the comparison is turned around.
ready_by_oracle_reversed(chosen_ts, current_oracle_ts) == current_oracle_ts <= chosen_ts

\* Line 856
ready_by_oracle(chosen_ts, current_oracle_ts) == chosen_ts <= current_oracle_ts

\* Lines 859-863: the wait of a read kept pending, folded into shortest_wait.
fold_shortest_wait(shortest_wait, wait) == IF wait < shortest_wait THEN wait ELSE shortest_wait

\* Which of the branches of lines 822-842 and 867-869 lets the read go.
snapshot_rule(read_txn) ==
    IF read_txn.ctx /= "TimelineTimestamp" THEN "no_timestamp"
    ELSE IF ~read_txn.has_oracle_ts THEN "no_oracle_ts"
    ELSE "snapshot"

\* A mutation of cache_entry: the cache is not keyed by timeline.
cache_entry_any_timeline(cached_oracle_ts, timeline) ==
    IF \E t \in Timelines : cached_oracle_ts[t].cached
    THEN cached_oracle_ts[CHOOSE t \in Timelines : cached_oracle_ts[t].cached]
    ELSE cached_oracle_ts[timeline]

\* A mutation of cache_entry: the cache is never hit.
cache_entry_always_vacant(cached_oracle_ts, timeline) == [cached |-> FALSE, ts |-> 0]

\* Line 845: cached_oracle_ts.entry(timeline.clone())
cache_entry(cached_oracle_ts, timeline) == cached_oracle_ts[timeline]

\* A mutation of requeued: the counter is left as it was.
requeued_uncounted(read_txn) == read_txn

\* Line 864: read_txn.num_requeues += 1
requeued(read_txn) == [read_txn EXCEPT !.num_requeues = @ + 1]

\* One iteration of the loop of lines 821-870 for the entry (conn_id, read_txn).
visit(conn_id, read_txn, st) ==
    IF ready_by_snapshot(read_txn)
    THEN [st EXCEPT !.ready_txns = Append(@, [conn_id |-> conn_id, txn |-> read_txn,
                                              rule |-> snapshot_rule(read_txn)])]
    ELSE LET entry == cache_entry(st.cached_oracle_ts, read_txn.timeline)
             \* Vacant: read the oracle and cache it; Occupied: the cached value.
             current_oracle_ts == IF entry.cached THEN entry.ts ELSE oracle[read_txn.timeline]
             st1 == IF entry.cached THEN st
                    ELSE [st EXCEPT !.cached_oracle_ts[read_txn.timeline] =
                                        [cached |-> TRUE, ts |-> current_oracle_ts],
                                    !.oracle_reads[read_txn.timeline] = @ + 1]
         IN  IF ready_by_oracle(read_txn.chosen_ts, current_oracle_ts)
             THEN [st1 EXCEPT !.ready_txns = Append(@, [conn_id |-> conn_id, txn |-> read_txn,
                                                        rule |-> "oracle"])]
             ELSE LET wait == read_txn.chosen_ts - current_oracle_ts
                  IN  [st1 EXCEPT !.shortest_wait = fold_shortest_wait(@, wait),
                                  !.waits = Append(@, wait),
                                  !.pending[conn_id] = requeued(read_txn)]

\* The loop of lines 821-870 over the entries taken from the pending map.
RECURSIVE linearize_pass(_, _, _)
linearize_pass(conns, taken, st) ==
    IF conns = <<>> THEN st
    ELSE CHOOSE result \in {linearize_pass(Tail(conns), taken, next) :
                               next \in {visit(Head(conns), taken[Head(conns)], st)}} : TRUE

RECURSIVE SeqMin(_)
SeqMin(q) == IF Len(q) = 1 THEN q[1] ELSE Min(q[1], SeqMin(Tail(q)))

\* A mutation of remaining_ms: the least wait of the reads kept pending, uncapped.
remaining_ms_least_wait(st) == SeqMin(st.waits)

\* Line 903: the delay of the wake-up, given the pass.
remaining_ms(st) == Min(st.shortest_wait, WAKEUP_CAP_MS)

\* A mutation of spawns_wakeup: every pass schedules a wake-up.
spawns_wakeup_always(pending) == TRUE

\* A mutation of spawns_wakeup: no wake-up is scheduled.
spawns_wakeup_never(pending) == FALSE

\* Line 901: a wake-up is scheduled iff reads remain pending.
spawns_wakeup(pending) == \E c \in Conns : pending[c] /= NoTxn

\* A mutation of retire_ready: only the first of the ready reads is retired.
retire_ready_first_only(rel, ready_txns) ==
    [c \in Conns |-> IF ready_txns /= <<>> /\ ready_txns[1].conn_id = c
                     THEN rel[c] + 1 ELSE rel[c]]

\* Line 896: ctx.retire(result) for every ready read; one more response per connection.
retire_ready(rel, ready_txns) ==
    [c \in Conns |-> rel[c] + Cardinality({i \in 1..Len(ready_txns) : ready_txns[i].conn_id = c})]

\* Message::LinearizeReads
message_linearize_reads ==
    /\ HeadIs("LinearizeReads")
    /\ mailbox' = Tail(mailbox)
    /\ \E conns \in {PendingConns(pending_linearize_read_txns)} :
       \E st \in {linearize_pass(conns, pending_linearize_read_txns, InitPass)} :
           /\ \A c \in Conns : st.pending[c].num_requeues <= MaxRequeues
           /\ pending_linearize_read_txns' = st.pending
           /\ released' = retire_ready(released, st.ready_txns)
           /\ wakeup_tasks' = IF spawns_wakeup(st.pending)
                              THEN Append(wakeup_tasks, remaining_ms(st))
                              ELSE wakeup_tasks
           /\ last_pass' = [ran |-> TRUE,
                            ready |-> [i \in 1..Len(st.ready_txns) |->
                                         [conn_id |-> st.ready_txns[i].conn_id,
                                          rule |-> st.ready_txns[i].rule,
                                          num_requeues |-> st.ready_txns[i].txn.num_requeues]]]
    /\ UNCHANGED <<oracle, reads_enqueued>>
    /\ UNCHANGED notReads

\* A mutation of wakeup_task_fire: the task releases the pending reads itself
\* instead of sending LinearizeReads.
wakeup_task_runs_pass ==
    /\ \E i \in 1..Len(wakeup_tasks) :
          wakeup_tasks' = SubSeq(wakeup_tasks, 1, i - 1)
                          \o SubSeq(wakeup_tasks, i + 1, Len(wakeup_tasks))
    /\ pending_linearize_read_txns' = [c \in Conns |-> NoTxn]
    /\ UNCHANGED <<mailbox, oracle, released, reads_enqueued, last_pass>>
    /\ UNCHANGED <<catalog, lockVars, clusterVars, stagedVars, connVars, usageVars,
                   watchVars, subVars, loopVars, passVars, last_schedule,
                   metricsVars>>

\* The deferred_read_txns task wakes up and posts LinearizeReads.
wakeup_task_fire ==
    /\ \E i \in 1..Len(wakeup_tasks) :
          wakeup_tasks' = SubSeq(wakeup_tasks, 1, i - 1)
                          \o SubSeq(wakeup_tasks, i + 1, Len(wakeup_tasks))
    /\ mailbox' = send(mailbox, rx_dropped, LinearizeReadsMsg)
    /\ failed_sends' = failed_send(failed_sends, "deferred_read_txns", rx_dropped)
    /\ UNCHANGED <<pending_linearize_read_txns, oracle, released, reads_enqueued, last_pass>>
    /\ UNCHANGED <<catalog, lockVars, clusterVars, stagedVars, connVars>>
    /\ UNCHANGED <<usage_sleep_tasks, usage_fetch_tasks, usage_table_tasks, storage_usage,
                   boots, organization_id, rx_dropped, schedules, watchVars, subVars, loopVars,
                   passVars, last_schedule, metricsVars>>

\* A read transaction on a timeline is handed to the coordinator for
\* linearization and LinearizeReads is posted.  Its oracle snapshot, if any,
\* is what the oracle of its timeline reports now; the oracle may advance
\* before the pass sees the read.
enqueue_timeline_read ==
    /\ reads_enqueued < MaxReads
    /\ \E c \in Conns, t \in Timelines, chosen_ts \in Timestamps, has_oracle_ts \in BOOLEAN :
          /\ pending_linearize_read_txns[c] = NoTxn
          /\ pending_linearize_read_txns' =
                 [pending_linearize_read_txns EXCEPT
                     ![c] = TimelineTimestamp(t, chosen_ts, has_oracle_ts,
                                              IF has_oracle_ts THEN oracle[t] ELSE 0)]
    /\ reads_enqueued' = reads_enqueued + 1
    /\ mailbox' = Append(mailbox, LinearizeReadsMsg)
    /\ UNCHANGED <<oracle, wakeup_tasks, released, last_pass>>
    /\ UNCHANGED notReads

\* The same for a read with no timestamp (TimestampContext::NoTimestamp).
enqueue_no_timestamp_read ==
    /\ reads_enqueued < MaxReads
    /\ \E c \in Conns :
          /\ pending_linearize_read_txns[c] = NoTxn
          /\ pending_linearize_read_txns' = [pending_linearize_read_txns EXCEPT ![c] = NoTimestamp]
    /\ reads_enqueued' = reads_enqueued + 1
    /\ mailbox' = Append(mailbox, LinearizeReadsMsg)
    /\ UNCHANGED <<oracle, wakeup_tasks, released, last_pass>>
    /\ UNCHANGED notReads

\* The oracle of a timeline advances; it never goes back.
oracle_advance ==
    /\ \E t \in Timelines :
          /\ oracle[t] + TsStep \in Timestamps
          /\ oracle' = [oracle EXCEPT ![t] = @ + TsStep]
    /\ UNCHANGED <<mailbox, pending_linearize_read_txns, wakeup_tasks, released,
                   reads_enqueued, last_pass>>
    /\ UNCHANGED notReads

\* ----------------------------------------------- the pass, one read at a time
\* message_linearize_reads awaits the oracle inside its loop, so the oracles may
\* advance and tasks may post messages between two iterations.  The actions
\* below run the same pass one step at a time.

\* What a pass that asked the oracle afresh for this read would decide now.
fresh_ready(read_txn) ==
    \/ ready_by_snapshot(read_txn)
    \/ read_txn.chosen_ts <= oracle[read_txn.timeline]

\* Lines 812-821: the handler starts; std::mem::take empties the pending map.
pass_begin ==
    /\ pass_phase = "idle"
    /\ HeadIs("LinearizeReads")
    /\ mailbox' = Tail(mailbox)
    /\ pass_phase' = "loop"
    /\ pass_taken' = pending_linearize_read_txns
    /\ pass_todo' = PendingConns(pending_linearize_read_txns)
    /\ pending_linearize_read_txns' = [c \in Conns |-> NoTxn]
    /\ pass_st' = InitPass
    /\ pass_log' = <<>>
    /\ pass_released0' = released
    /\ UNCHANGED <<oracle, wakeup_tasks, released, reads_enqueued, last_pass,
                   pass_spawned, not_ready_passes>>
    /\ UNCHANGED notPass

\* Lines 821-870: one iteration of the loop.  pass_log notes what the iteration
\* did: whether it asked the oracle, whether it wrote the cache, and what a
\* fresh reading of the oracle would have decided.
pass_visit ==
    /\ pass_phase = "loop"
    /\ pass_todo /= <<>>
    /\ \E conn_id \in {Head(pass_todo)} :
       \E st \in {visit(conn_id, pass_taken[conn_id], pass_st)} :
           /\ st.pending[conn_id].num_requeues <= MaxRequeues
           /\ pass_st' = st
           /\ pending_linearize_read_txns' = st.pending
           /\ pass_log' = Append(pass_log,
                  [conn_id |-> conn_id,
                   asked_oracle |-> st.oracle_reads /= pass_st.oracle_reads,
                   wrote_cache |-> st.cached_oracle_ts /= pass_st.cached_oracle_ts,
                   kept |-> st.pending[conn_id] /= NoTxn,
                   fresh_ready |-> fresh_ready(pass_taken[conn_id])])
    /\ pass_todo' = Tail(pass_todo)
    /\ UNCHANGED <<mailbox, oracle, wakeup_tasks, released, reads_enqueued, last_pass,
                   pass_phase, pass_taken, pass_released0, pass_spawned, not_ready_passes>>
    /\ UNCHANGED notPass

\* Lines 872-899: the ready reads are finished and retired.
pass_retire ==
    /\ pass_phase = "loop"
    /\ pass_todo = <<>>
    /\ pass_phase' = "retired"
    /\ released' = retire_ready(released, pass_st.ready_txns)
    /\ UNCHANGED <<mailbox, pending_linearize_read_txns, oracle, wakeup_tasks,
                   reads_enqueued, last_pass, pass_st, pass_todo, pass_taken, pass_log,
                   pass_released0, pass_spawned, not_ready_passes>>
    /\ UNCHANGED notPass

\* Lines 901-913: the wake-up task is spawned if reads are pending.
pass_spawn ==
    /\ pass_phase = "retired"
    /\ pass_phase' = "spawned"
    /\ \E delays \in {IF spawns_wakeup(pending_linearize_read_txns)
                      THEN <<remaining_ms(pass_st)>> ELSE <<>>} :
          /\ wakeup_tasks' = wakeup_tasks \o delays
          /\ pass_spawned' = delays
    /\ UNCHANGED <<mailbox, pending_linearize_read_txns, oracle, released,
                   reads_enqueued, last_pass, pass_st, pass_todo, pass_taken, pass_log,
                   pass_released0, not_ready_passes>>
    /\ UNCHANGED notPass

\* Line 914: the handler returns and its locals go out of scope.
pass_return ==
    /\ pass_phase = "spawned"
    /\ pass_phase' = "idle"
    /\ pass_st' = InitPass
    /\ pass_taken' = [c \in Conns |-> NoTxn]
    /\ pass_log' = <<>>
    /\ pass_released0' = [c \in Conns |-> 0]
    /\ pass_spawned' = <<>>
    /\ not_ready_passes' =
           [c \in Conns |-> IF pending_linearize_read_txns[c] /= NoTxn
                            THEN not_ready_passes[c] + 1 ELSE 0]
    /\ UNCHANGED <<mailbox, pending_linearize_read_txns, oracle, wakeup_tasks, released,
                   reads_enqueued, last_pass, pass_todo>>
    /\ UNCHANGED notPass

InitPassVars ==
    /\ pass_phase = "idle"
    /\ pass_st = InitPass
    /\ pass_todo = <<>>
    /\ pass_taken = [c \in Conns |-> NoTxn]
    /\ pass_log = <<>>
    /\ pass_released0 = [c \in Conns |-> 0]
    /\ pass_spawned = <<>>
    /\ not_ready_passes = [c \in Conns |-> 0]

InitReads ==
    /\ pending_linearize_read_txns = [c \in Conns |-> NoTxn]
    /\ oracle = [t \in Timelines |-> 0]
    /\ wakeup_tasks = <<>>
    /\ released = [c \in Conns |-> 0]
    /\ reads_enqueued = 0
    /\ last_pass = [ran |-> FALSE, ready |-> <<>>]

\* ---------------------------------------------------- cluster replica status
Processes == {0, 1}

\* ClusterStatus: Ready, or NotReady with an optional reason.
ClusterStatuses == {"Ready", "NotReady(None)", "NotReady(OomKilled)"}

\* The one replica the table starts with.
TheReplica == [cluster_id |-> 1, replica_id |-> 1]

\* The clock of the controller: the n-th event carries time n.
EventTimes == 0..MaxEvents

ClusterEventMsg(event) == [kind |-> "ClusterEvent", event |-> event]

\* ClusterReplicaProcessStatus
ClusterReplicaProcessStatus(status, time) == [status |-> status, time |-> time]

\* pack_cluster_replica_status_update: the row of one process status, with its diff.
pack_cluster_replica_status_update(replica_id, process_id, process_status, diff) ==
    [row |-> [replica_id |-> replica_id, process_id |-> process_id,
              status |-> process_status.status, time |-> process_status.time],
     diff |-> diff]

StatusRows ==
    [replica_id : {TheReplica.replica_id}, process_id : Processes,
     status : ClusterStatuses, time : EventTimes]

\* try_get_cluster_replica_statuses
ReplicaKnown(statuses, event) ==
    [cluster_id |-> event.cluster_id, replica_id |-> event.replica_id] \in DOMAIN statuses

\* A mutation of status_differs: compares readiness only, not the reason.
status_differs_readiness_only(event_status, stored_status) ==
    (event_status = "Ready") /= (stored_status = "Ready")

\* Line 735: the event's status is not the stored one.
status_differs(event_status, stored_status) == event_status /= stored_status

\* ClusterReplicaStatuses::cluster_replica_status: Ready when every process is Ready,
\* else NotReady with the first reason known, in process order.
cluster_replica_status(replica_statuses) ==
    IF \A p \in Processes : replica_statuses[p].status = "Ready" THEN "Ready"
    ELSE IF \A p \in Processes : replica_statuses[p].status /= "NotReady(OomKilled)"
         THEN "NotReady(None)"
         ELSE "NotReady(OomKilled)"

\* ensure_cluster_status
ensure_cluster_status(statuses, key, process_id, process_status) ==
    [statuses EXCEPT ![key][process_id] = process_status]

\* BuiltinTableAppend::execute: every update adds its diff to its row.
RECURSIVE builtin_table_update_execute(_, _)
builtin_table_update_execute(relation, updates) ==
    IF updates = <<>> THEN relation
    ELSE builtin_table_update_execute(
             [relation EXCEPT ![Head(updates).row] = @ + Head(updates).diff],
             Tail(updates))

\* A mutation of on_unknown_replica: the event creates the entry it did not find.
on_unknown_replica_creates(statuses, event) ==
    [k \in DOMAIN statuses
            \cup {[cluster_id |-> event.cluster_id, replica_id |-> event.replica_id]} |->
        IF k \in DOMAIN statuses THEN statuses[k]
        ELSE [p \in Processes |-> ClusterReplicaProcessStatus(event.status, event.time)]]

\* Lines 728-733: `else { return; }` leaves the table as it is.
on_unknown_replica(statuses, event) == statuses

\* A mutation of status_update_batch: the insertion comes first.
status_update_batch_reversed(retraction, addition) == <<addition, retraction>>

\* A mutation of status_update_batch: the old row is not retracted.
status_update_batch_addition_only(retraction, addition) == <<addition>>

\* Line 774: vec![builtin_table_retraction, builtin_table_addition]
status_update_batch(retraction, addition) == <<retraction, addition>>

\* A mutation of notice_due: every change of a process status is broadcast.
notice_due_always(old_replica_status, new_replica_status) == TRUE

\* Line 794: old_replica_status != new_replica_status
notice_due(old_replica_status, new_replica_status) ==
    old_replica_status /= new_replica_status

NoEvent == [cluster_id |-> 0, replica_id |-> 0, process_id |-> 0, status |-> "Ready", time |-> 0]

\* Lines 691-804.  The event of a replica the table does not hold is ignored; an
\* event whose status differs from the stored one emits the retraction of the old row
\* and the insertion of the new one, stores the new status and time, and broadcasts a
\* notice when the status of the replica as a whole changed.
message_cluster_event ==
    /\ HeadIs("ClusterEvent")
    /\ mailbox' = Tail(mailbox)
    /\ LET event == Head(mailbox).event
           key == [cluster_id |-> event.cluster_id, replica_id |-> event.replica_id]
       IN IF ~ReplicaKnown(cluster_replica_statuses, event)
          THEN /\ last_event' = [event |-> event, known |-> FALSE, updates |-> <<>>,
                                 notice |-> FALSE]
               /\ cluster_replica_statuses' =
                      on_unknown_replica(cluster_replica_statuses, event)
               /\ UNCHANGED <<buffered_builtin_table_updates, introspection>>
          ELSE LET replica_statues == cluster_replica_statuses[key]
                   old_process_status == replica_statues[event.process_id]
               IN IF status_differs(event.status, old_process_status.status)
                  THEN LET old_replica_status == cluster_replica_status(replica_statues)
                           builtin_table_retraction ==
                               pack_cluster_replica_status_update(
                                   event.replica_id, event.process_id, old_process_status, -1)
                           new_process_status ==
                               ClusterReplicaProcessStatus(event.status, event.time)
                           builtin_table_addition ==
                               pack_cluster_replica_status_update(
                                   event.replica_id, event.process_id, new_process_status, 1)
                           new_statuses ==
                               ensure_cluster_status(cluster_replica_statuses, key,
                                                     event.process_id, new_process_status)
                           builtin_table_updates ==
                               status_update_batch(builtin_table_retraction,
                                                   builtin_table_addition)
                           new_replica_status == cluster_replica_status(new_statuses[key])
                       IN /\ cluster_replica_statuses' = new_statuses
                          /\ IF read_only
                             THEN /\ buffered_builtin_table_updates' =
                                         buffered_builtin_table_updates \o builtin_table_updates
                                  /\ UNCHANGED introspection
                             ELSE /\ introspection' =
                                         builtin_table_update_execute(introspection,
                                                                      builtin_table_updates)
                                  /\ UNCHANGED buffered_builtin_table_updates
                          /\ last_event' = [event |-> event, known |-> TRUE,
                                            updates |-> builtin_table_updates,
                                            notice |-> notice_due(old_replica_status,
                                                                  new_replica_status)]
                  ELSE /\ last_event' = [event |-> event, known |-> TRUE, updates |-> <<>>,
                                         notice |-> FALSE]
                       /\ UNCHANGED <<cluster_replica_statuses,
                                      buffered_builtin_table_updates, introspection>>
    /\ UNCHANGED <<read_only, events_sent>>
    /\ UNCHANGED notCluster

\* The controller reports the status of a process of the replica.
controller_cluster_event ==
    /\ events_sent < MaxEvents
    /\ \E process_id \in Processes, status \in ClusterStatuses :
          mailbox' = Append(mailbox, ClusterEventMsg(
              [cluster_id |-> TheReplica.cluster_id, replica_id |-> TheReplica.replica_id,
               process_id |-> process_id, status |-> status, time |-> events_sent + 1]))
    /\ events_sent' = events_sent + 1
    /\ UNCHANGED <<cluster_replica_statuses, read_only, buffered_builtin_table_updates,
                   introspection, last_event>>
    /\ UNCHANGED notCluster

\* DROP of the replica, outside read-only mode: its statuses leave the table and
\* its rows leave the relation.
drop_replica ==
    /\ ~read_only
    /\ TheReplica \in DOMAIN cluster_replica_statuses
    /\ cluster_replica_statuses' = [k \in {} |-> 0]
    /\ introspection' = builtin_table_update_execute(introspection,
           [i \in 1..2 |-> pack_cluster_replica_status_update(
               TheReplica.replica_id, i - 1, cluster_replica_statuses[TheReplica][i - 1], -1)])
    /\ UNCHANGED <<mailbox, read_only, buffered_builtin_table_updates, events_sent,
                   last_event>>
    /\ UNCHANGED notCluster

\* Provisioning leaves every process NotReady at time 0, mirrored in the relation.
InitCluster ==
    /\ cluster_replica_statuses =
           [k \in {TheReplica} |->
               [p \in Processes |-> ClusterReplicaProcessStatus("NotReady(None)", 0)]]
    /\ buffered_builtin_table_updates = <<>>
    /\ introspection =
           [r \in StatusRows |-> IF r.status = "NotReady(None)" /\ r.time = 0 THEN 1 ELSE 0]
    /\ events_sent = 0
    /\ last_event = [event |-> NoEvent, known |-> FALSE, updates |-> <<>>, notice |-> FALSE]

\* ------------------------------------------------------- staged sequencing
Stmts == 1..MaxPurified

\* The id of an object that only the purified form of a statement depends on.
PurificationDep == 0

\* The purified statements the handler tells apart, each with the ids its text
\* depends on.  Purification adds a dependency and can remove the ones the
\* original statement had.
PurifiedKinds == {"PurifiedCreateSource", "PurifiedAlterSource", "PurifiedCreateSink"}
UnifiedKinds == {"PurifiedAlterSource", "PurifiedCreateSink"}
NoPurified == [kind |-> "None", deps |-> {}]
PurifiedStatements(original_ids) ==
    [kind : UnifiedKinds,
     deps : {original_ids \cup {PurificationDep}, {PurificationDep}}]
    \cup [kind : PurifiedKinds \ UnifiedKinds, deps : {original_ids \cup {PurificationDep}}]

PurifiedStatementReadyMsg(stmt, result, purified, plan_validity) ==
    [kind |-> "PurifiedStatementReady", original_stmt |-> stmt, result |-> result,
     purified |-> purified, plan_validity |-> plan_validity]

\* mz_sql::names::visit_dependencies: every id the statement depends on.
visit_dependencies(stmt) == stmt.deps

\* Lines 552-566: ALTER SOURCE and CREATE SINK become one Statement.
unify(purified) == [kind |-> "Statement", deps |-> purified.deps]

\* A mutation of purified_resolved_ids: the ids resolved before purification are
\* handed on.
purified_resolved_ids_reused(purified, plan_validity, planner_ids) ==
    IF purified.kind \in UnifiedKinds THEN plan_validity ELSE planner_ids

\* Lines 524-572: the resolved ids that go with the plan.  For ALTER SOURCE and
\* CREATE SINK they are the dependencies of the unified statement; for the other
\* kinds the planner of that kind returns them.
purified_resolved_ids(purified, plan_validity, planner_ids) ==
    IF purified.kind \in UnifiedKinds THEN visit_dependencies(unify(purified))
    ELSE planner_ids

\* handle_execute_inner on a statement that names the object: with the object gone
\* the statement is retired with an error, else a purification task starts that
\* carries the ids the name resolves to now.
handle_execute_inner(original_stmt, cat, tasks, ret) ==
    IF cat = {}
    THEN [purify_tasks |-> tasks,
          staged_retired |-> Append(ret, [stmt |-> original_stmt,
                                          result |-> "UnknownObject"])]
    ELSE [purify_tasks |-> tasks \cup {[stmt |-> original_stmt, plan_validity |-> cat]},
          staged_retired |-> ret]

\* A mutation of purified_outcome: the validity of the plan is not looked at.
purified_outcome_unchecked(valid, result, plan_ok) ==
    IF result = "Err" THEN "retire_err"
    ELSE IF plan_ok THEN "sequence_plan"
    ELSE "retire_plan_err"

\* Lines 513-577: what the handler does with a purified statement.
purified_outcome(valid, result, plan_ok) ==
    IF ~valid THEN "handle_execute_inner"
    ELSE IF result = "Err" THEN "retire_err"
    ELSE IF plan_ok THEN "sequence_plan"
    ELSE "retire_plan_err"

\* The ids plan_purified_create_source can return with its plan.  The planner is
\* outside this file: it may return the dependencies of the purified statement
\* alone or together with the ones resolved before purification.
PlannerIds(purified, plan_validity) ==
    IF purified.kind \in UnifiedKinds \/ purified = NoPurified THEN {{}}
    ELSE {purified.deps, purified.deps \cup plan_validity}

\* Lines 490-578.  plan_ok is the outcome of planning the purified statement.
message_purified_statement_ready ==
    /\ HeadIs("PurifiedStatementReady")
    /\ mailbox' = Tail(mailbox)
    /\ \E plan_ok \in BOOLEAN,
          planner_ids \in PlannerIds(Head(mailbox).purified, Head(mailbox).plan_validity) :
          LET ready == Head(mailbox)
              stmt == ready.original_stmt
              valid == PlanValidity_check(ready.plan_validity, catalog)
              outcome == purified_outcome(valid, ready.result, plan_ok)
              again == handle_execute_inner(stmt, catalog, purify_tasks, staged_retired)
              resolved_ids ==
                  purified_resolved_ids(ready.purified, ready.plan_validity, planner_ids)
          IN /\ last_purified' =
                    [stmt |-> stmt, outcome |-> outcome, valid |-> valid,
                     failed |-> ready.result = "Err",
                     planned_with |->
                         IF outcome \in {"sequence_plan", "retire_plan_err"}
                         THEN resolved_ids ELSE {}]
             /\ purify_tasks' =
                    IF outcome = "handle_execute_inner" THEN again.purify_tasks
                    ELSE purify_tasks
             /\ executions' =
                    IF outcome = "handle_execute_inner"
                    THEN [executions EXCEPT ![stmt] = @ + 1]
                    ELSE executions
             /\ staged_retired' =
                    CASE outcome = "handle_execute_inner" -> again.staged_retired
                      [] outcome = "retire_err" ->
                             Append(staged_retired, [stmt |-> stmt, result |-> "PurifyErr"])
                      [] outcome = "retire_plan_err" ->
                             Append(staged_retired, [stmt |-> stmt, result |-> "PlanErr"])
                      [] OTHER -> staged_retired
             /\ staged_sequenced' =
                    IF outcome = "sequence_plan"
                    THEN Append(staged_sequenced,
                                [stmt |-> stmt, resolved_ids |-> resolved_ids,
                                 current |-> ready.plan_validity \subseteq catalog])
                    ELSE staged_sequenced
    /\ UNCHANGED <<catalog, next_id, stmts_submitted>>
    /\ UNCHANGED notStaged

\* A client executes a statement that needs purification.
execute_statement ==
    /\ stmts_submitted < MaxPurified
    /\ LET stmt == stmts_submitted + 1
           first == handle_execute_inner(stmt, catalog, purify_tasks, staged_retired)
       IN /\ stmts_submitted' = stmt
          /\ purify_tasks' = first.purify_tasks
          /\ staged_retired' = first.staged_retired
          /\ executions' = [executions EXCEPT ![stmt] = 1]
    /\ UNCHANGED <<mailbox, catalog, next_id, staged_sequenced, last_purified>>
    /\ UNCHANGED notStaged

\* The purification task finishes, with a purified statement or an error.
purification_task_done ==
    /\ \E task \in purify_tasks, result \in {"Ok", "Err"} :
          \E purified \in IF result = "Ok" THEN PurifiedStatements(task.plan_validity)
                           ELSE {NoPurified} :
             /\ purify_tasks' = purify_tasks \ {task}
             /\ mailbox' = Append(mailbox,
                    PurifiedStatementReadyMsg(task.stmt, result, purified,
                                              task.plan_validity))
    /\ UNCHANGED <<catalog, next_id, stmts_submitted, executions, staged_retired,
                   staged_sequenced, last_purified>>
    /\ UNCHANGED notStaged

\* CREATE of an object under the name the dropped one had: it gets a fresh id.
catalog_create ==
    /\ catalog = {}
    /\ next_id <= MaxObjects
    /\ catalog' = {next_id}
    /\ next_id' = next_id + 1
    /\ UNCHANGED <<mailbox, stmts_submitted, purify_tasks, executions, staged_retired,
                   staged_sequenced, last_purified>>
    /\ UNCHANGED notStaged

InitStaged ==
    /\ next_id = 2
    /\ stmts_submitted = 0
    /\ purify_tasks = {}
    /\ executions = [s \in Stmts |-> 0]
    /\ staged_retired = <<>>
    /\ staged_sequenced = <<>>
    /\ last_purified = [stmt |-> 0, outcome |-> "None", valid |-> TRUE,
                        failed |-> FALSE, planned_with |-> {}]

\* -------------------------------------------------- connection validation
ConnStmts == 1..MaxConnStmts

\* The errors a connection validation may end with.
ValidationErrors == {"Err(Timeout)", "Err(Auth)"}

CreateConnectionValidationReadyMsg(stmt, result, plan_validity) ==
    [kind |-> "CreateConnectionValidationReady", connection_gid |-> stmt,
     result |-> result, plan_validity |-> plan_validity]

AlterConnectionValidationReadyMsg(stmt, result, plan_validity) ==
    [kind |-> "AlterConnectionValidationReady", connection_gid |-> stmt,
     result |-> result, plan_validity |-> plan_validity]

\* A mutation of validation_outcome: the result of the validation is looked at
\* before the validity of the plan.
validation_outcome_result_first(valid, result) ==
    IF result \in ValidationErrors THEN "retire_err"
    ELSE IF ~valid THEN "retire_validity_err"
    ELSE "stage_finish"

\* Lines 599-610 and 642-651: what either handler does with a validation result.
validation_outcome(valid, result) ==
    IF ~valid THEN "retire_validity_err"
    ELSE IF result \in ValidationErrors THEN "retire_err"
    ELSE "stage_finish"

\* A mutation of validation_responses: the early paths do not return, the handler
\* goes on to finish the stage and retires the client with that result as well.
validation_responses_no_return(outcome, response, finish_response) ==
    IF outcome = "stage_finish" THEN <<response>> ELSE <<response, finish_response>>

\* Lines 601, 608, 620 and 644, 649, 656: the results the handler retires the
\* client with, in order.  Each early path retires and returns; the last path
\* retires with the result of finishing the stage.
validation_responses(outcome, response, finish_response) == <<response>>

\* ctx.retire for each result in turn.
retire_each(retired_so_far, stmt, results) ==
    retired_so_far \o [i \in 1..Len(results) |-> [stmt |-> stmt, result |-> results[i]]]

\* A mutation of retired_error: a failed delete of the secret takes the error's place.
retired_error_masked(e, delete_ok) == IF delete_ok THEN e ELSE "Err(SecretDelete)"

\* Lines 600-601 and 607-608: `let _ = delete(..)` drops the outcome of the delete,
\* the client gets e.
retired_error(e, delete_ok) == e

\* Lines 581-621.  delete_ok is the outcome of secrets_controller.delete, finish_ok
\* the outcome of sequence_create_connection_stage_finish.
message_create_connection_validation_ready ==
    /\ HeadIs("CreateConnectionValidationReady")
    /\ mailbox' = Tail(mailbox)
    /\ \E delete_ok \in BOOLEAN, finish_ok \in BOOLEAN :
          LET ready == Head(mailbox)
              gid == ready.connection_gid
              valid == PlanValidity_check(ready.plan_validity, catalog)
              outcome == validation_outcome(valid, ready.result)
              deletes == outcome \in {"retire_validity_err", "retire_err"}
              response ==
                  CASE outcome = "retire_validity_err" ->
                           retired_error("Err(PlanValidity)", delete_ok)
                    [] outcome = "retire_err" -> retired_error(ready.result, delete_ok)
                    [] OTHER -> IF finish_ok THEN "Ok" ELSE "Err(Catalog)"
              responses == validation_responses(outcome, response,
                               IF finish_ok THEN "Ok" ELSE "Err(Catalog)")
          IN /\ secrets' = IF deletes /\ delete_ok THEN secrets \ {gid} ELSE secrets
             /\ connections' =
                    IF outcome = "stage_finish" /\ finish_ok
                    THEN connections \cup {gid} ELSE connections
             /\ conn_retired' = retire_each(conn_retired, gid, responses)
             /\ last_validation' = [kind |-> "Create", stmt |-> gid, outcome |-> outcome,
                                    delete_requested |-> deletes, delete_ok |-> delete_ok,
                                    failed |-> ready.result \in ValidationErrors]
    /\ UNCHANGED <<catalog, next_id, conn_submitted, validation_tasks>>
    /\ UNCHANGED notConn

\* Lines 624-657.  finish_ok is the outcome of sequence_alter_connection_stage_finish.
message_alter_connection_validation_ready ==
    /\ HeadIs("AlterConnectionValidationReady")
    /\ mailbox' = Tail(mailbox)
    /\ \E finish_ok \in BOOLEAN :
          LET ready == Head(mailbox)
              gid == ready.connection_gid
              valid == PlanValidity_check(ready.plan_validity, catalog)
              outcome == validation_outcome(valid, ready.result)
              response ==
                  CASE outcome = "retire_validity_err" -> "Err(PlanValidity)"
                    [] outcome = "retire_err" -> ready.result
                    [] OTHER -> IF finish_ok THEN "Ok" ELSE "Err(Catalog)"
              responses == validation_responses(outcome, response,
                               IF finish_ok THEN "Ok" ELSE "Err(Catalog)")
          IN /\ connections' =
                    IF outcome = "stage_finish" /\ finish_ok
                    THEN connections \cup {gid} ELSE connections
             /\ conn_retired' = retire_each(conn_retired, gid, responses)
             /\ last_validation' = [kind |-> "Alter", stmt |-> gid, outcome |-> outcome,
                                    delete_requested |-> FALSE, delete_ok |-> FALSE,
                                    failed |-> ready.result \in ValidationErrors]
    /\ UNCHANGED <<catalog, next_id, conn_submitted, validation_tasks, secrets>>
    /\ UNCHANGED notConn

\* A client executes CREATE CONNECTION or ALTER CONNECTION on the secret the catalog
\* holds: CREATE reserves a secret for the new connection, and the validation task
\* starts with the ids the statement resolves to now.
execute_connection_statement ==
    /\ conn_submitted < MaxConnStmts
    /\ catalog /= {}
    /\ \E kind \in {"Create", "Alter"} :
          LET stmt == conn_submitted + 1
          IN /\ conn_submitted' = stmt
             /\ validation_tasks' = validation_tasks \cup
                    {[stmt |-> stmt, kind |-> kind, plan_validity |-> catalog]}
             /\ secrets' = IF kind = "Create" THEN secrets \cup {stmt} ELSE secrets
    /\ UNCHANGED <<mailbox, catalog, next_id, connections, conn_retired, last_validation>>
    /\ UNCHANGED notConn

\* The validation task finishes, with a validated connection or an error.
validation_task_done ==
    /\ \E task \in validation_tasks, result \in {"Ok"} \cup ValidationErrors :
          /\ validation_tasks' = validation_tasks \ {task}
          /\ mailbox' = Append(mailbox,
                 IF task.kind = "Create"
                 THEN CreateConnectionValidationReadyMsg(task.stmt, result,
                                                         task.plan_validity)
                 ELSE AlterConnectionValidationReadyMsg(task.stmt, result,
                                                        task.plan_validity))
    /\ UNCHANGED <<catalog, next_id, conn_submitted, secrets, connections, conn_retired,
                   last_validation>>
    /\ UNCHANGED notConn

InitConn ==
    /\ conn_submitted = 0
    /\ validation_tasks = {}
    /\ secrets = {}
    /\ connections = {}
    /\ conn_retired = <<>>
    /\ last_validation = [kind |-> "None", stmt |-> 0, outcome |-> "None",
                          delete_requested |-> FALSE, delete_ok |-> FALSE,
                          failed |-> FALSE]

\* ------------------------------------------------- storage-usage collection
StorageUsageScheduleMsg == [kind |-> "StorageUsageSchedule"]
StorageUsageFetchMsg == [kind |-> "StorageUsageFetch"]
StorageUsageUpdateMsg(sizes) == [kind |-> "StorageUsageUpdate", shards_usage |-> sizes]

\* Organization ids of the deployments looked at: the seed of the offset.
OrganizationIds == {1, 2}

\* What a scan of the storage engine may report: the size of each live shard.
ShardsUsages == {<<>>, <<5>>}

\* SmallRng::from_seed(seed).gen_range(0..interval): a fixed function of the seed
\* and the interval.
gen_range(seed, interval) == (seed * 733 + 17) % interval

\* A mutation of next_collection_ts: an instant that is now counts as ahead.
next_collection_ts_inclusive(seed, interval, now_ts) ==
    LET offset == gen_range(seed, interval)
        previous_collection_ts == (now_ts - (now_ts % interval)) + offset
    IN IF previous_collection_ts >= now_ts THEN previous_collection_ts
       ELSE previous_collection_ts + interval

\* A mutation of next_collection_ts: a full interval from now.
next_collection_ts_from_now(seed, interval, now_ts) == now_ts + interval

\* Lines 356-367.
next_collection_ts(seed, interval, now_ts) ==
    LET offset == gen_range(seed, interval)
        previous_collection_ts == (now_ts - (now_ts % interval)) + offset
    IN IF previous_collection_ts > now_ts THEN previous_collection_ts
       ELSE previous_collection_ts + interval

\* A mutation of sleep_tasks_after_send: the task is an interval timer that stays.
sleep_tasks_kept(tasks, i) == tasks

\* Lines 372-377: the task sends once and ends.
sleep_tasks_after_send(tasks, i) ==
    SubSeq(tasks, 1, i - 1) \o SubSeq(tasks, i + 1, Len(tasks))

\* Lines 330-378.
schedule_storage_usage_collection ==
    /\ HeadIs("StorageUsageSchedule")
    /\ mailbox' = Tail(mailbox)
    /\ LET now_ts == oracle["EpochMilliseconds"]
           next_ts == next_collection_ts(organization_id, UsageIntervalMs, now_ts)
           next_collection_interval == next_ts - now_ts
       IN /\ usage_sleep_tasks' = Append(usage_sleep_tasks, next_collection_interval)
          /\ schedules' = schedules \cup {[now_ts |-> now_ts, next_ts |-> next_ts]}
    /\ UNCHANGED <<usage_fetch_tasks, usage_table_tasks, storage_usage, boots,
                   organization_id, rx_dropped, failed_sends>>
    /\ UNCHANGED notUsage

\* Lines 372-377: the sleep is over, the task sends StorageUsageFetch.
storage_usage_collection_task ==
    /\ \E i \in DOMAIN usage_sleep_tasks :
          usage_sleep_tasks' = sleep_tasks_after_send(usage_sleep_tasks, i)
    /\ mailbox' = send(mailbox, rx_dropped, StorageUsageFetchMsg)
    /\ failed_sends' = failed_send(failed_sends, "storage_usage_collection", rx_dropped)
    /\ UNCHANGED <<usage_fetch_tasks, usage_table_tasks, storage_usage, boots,
                   organization_id, rx_dropped, schedules>>
    /\ UNCHANGED notUsage

\* Lines 244-293.
storage_usage_fetch ==
    /\ HeadIs("StorageUsageFetch")
    /\ mailbox' = Tail(mailbox)
    /\ usage_fetch_tasks' = usage_fetch_tasks + 1
    /\ UNCHANGED <<usage_sleep_tasks, usage_table_tasks, storage_usage, boots,
                   organization_id, rx_dropped, schedules, failed_sends>>
    /\ UNCHANGED notUsage

\* Lines 282-292: the scan is over, the task sends what it found.
storage_usage_fetch_task ==
    /\ usage_fetch_tasks > 0
    /\ usage_fetch_tasks' = usage_fetch_tasks - 1
    /\ \E shard_sizes \in ShardsUsages :
          mailbox' = send(mailbox, rx_dropped, StorageUsageUpdateMsg(shard_sizes))
    /\ failed_sends' = failed_send(failed_sends, "storage_usage_fetch", rx_dropped)
    /\ UNCHANGED <<usage_sleep_tasks, usage_table_tasks, storage_usage, boots,
                   organization_id, rx_dropped, schedules>>
    /\ UNCHANGED notUsage

\* Lines 312-327: only a committed catalog transaction spawns the task that posts
\* the next StorageUsageSchedule.
update_reschedules(transact_ok) == transact_ok

\* Lines 296-328.  transact_ok is the outcome of catalog_transact_inner.
storage_usage_update ==
    /\ HeadIs("StorageUsageUpdate")
    /\ mailbox' = Tail(mailbox)
    /\ \E transact_ok \in BOOLEAN :
          LET shards_usage == Head(mailbox).shards_usage
              collection_timestamp == oracle["EpochMilliseconds"]
              ops == {[size_bytes |-> shards_usage[i],
                       collection_timestamp |-> collection_timestamp] :
                          i \in DOMAIN shards_usage}
          IN /\ storage_usage' = IF transact_ok THEN storage_usage \cup ops
                                 ELSE storage_usage
             /\ usage_table_tasks' = IF update_reschedules(transact_ok)
                                     THEN usage_table_tasks + 1
                                     ELSE usage_table_tasks
    /\ UNCHANGED <<usage_sleep_tasks, usage_fetch_tasks, boots, organization_id,
                   rx_dropped, schedules, failed_sends>>
    /\ UNCHANGED notUsage

\* Lines 318-324: the table updates are applied, the task sends StorageUsageSchedule.
storage_usage_update_table_updates_task ==
    /\ usage_table_tasks > 0
    /\ usage_table_tasks' = usage_table_tasks - 1
    /\ mailbox' = send(mailbox, rx_dropped, StorageUsageScheduleMsg)
    /\ failed_sends' = failed_send(failed_sends, "storage_usage_update_table_updates", rx_dropped)
    /\ UNCHANGED <<usage_sleep_tasks, usage_fetch_tasks, storage_usage, boots,
                   organization_id, rx_dropped, schedules>>
    /\ UNCHANGED notUsage

\* The coordinator (re)starts: the tasks and messages of the run before are gone
\* and the collection cycle starts with one StorageUsageSchedule.
coordinator_boot ==
    /\ boots < MaxBoots
    /\ boots' = boots + 1
    /\ rx_dropped' = FALSE
    /\ mailbox' = <<StorageUsageScheduleMsg>>
    /\ usage_sleep_tasks' = <<>>
    /\ usage_fetch_tasks' = 0
    /\ usage_table_tasks' = 0
    /\ UNCHANGED <<storage_usage, organization_id, schedules, failed_sends>>
    /\ UNCHANGED notUsage

\* Shutdown: the receiver of the mailbox is dropped, with the messages in it.
coordinator_shutdown ==
    /\ boots > 0
    /\ ~rx_dropped
    /\ rx_dropped' = TRUE
    /\ mailbox' = <<>>
    /\ UNCHANGED <<usage_sleep_tasks, usage_fetch_tasks, usage_table_tasks, storage_usage,
                   boots, organization_id, schedules, failed_sends>>
    /\ UNCHANGED notUsage

InitUsage ==
    /\ usage_sleep_tasks = <<>>
    /\ usage_fetch_tasks = 0
    /\ usage_table_tasks = 0
    /\ storage_usage = {}
    /\ boots = 0
    /\ rx_dropped = FALSE
    /\ schedules = {}
    /\ failed_sends = {}

\* ------------------------------------------------------ controller responses
ControllerReadyMsg == [kind |-> "ControllerReady"]

WatchSetIds == 1..MaxWatchSets

WatchSetFinished(ws_ids) == [kind |-> "WatchSetFinished", ws_ids |-> ws_ids]

\* Lines 57-86: ControllerReady hands the next response of the controller, if any,
\* to message_controller.
ControllerHas(kind) ==
    /\ HeadIs("ControllerReady")
    /\ controller_responses /= <<>>
    /\ Head(controller_responses).kind = kind

\* The entry installed_watch_sets holds for a watch set, if any.
InstalledEntry(installed, ws_id) == {e \in installed : e.ws_id = ws_id}

\* A mutation of remove_from_connection: the connection keeps an empty set.
remove_from_connection_keep_empty(by_conn, conn_id, ws_id) ==
    [by_conn EXCEPT ![conn_id] = @ \ {ws_id}]

\* Lines 468-474: the watch set leaves the set of its connection, and the
\* connection leaves the map when its set is empty.
remove_from_connection(by_conn, conn_id, ws_id) ==
    IF by_conn[conn_id] \ {ws_id} = {}
    THEN [c \in DOMAIN by_conn \ {conn_id} |-> by_conn[c]]
    ELSE [by_conn EXCEPT ![conn_id] = @ \ {ws_id}]

\* Lines 464-484, one round of the loop.  st holds the two maps, the responses
\* acted on and whether the handler panicked on an unknown connection id.
finish_watch_set(st, ws_id) ==
    LET found == InstalledEntry(st.installed_watch_sets, ws_id)
    IN IF found = {} \/ st.panicked THEN st
       ELSE LET entry == CHOOSE e \in found : TRUE
            IN IF entry.conn_id \notin DOMAIN st.connection_watch_sets
               THEN [st EXCEPT !.installed_watch_sets = @ \ found, !.panicked = TRUE]
               ELSE [st EXCEPT
                        !.installed_watch_sets = @ \ found,
                        !.connection_watch_sets =
                            remove_from_connection(@, entry.conn_id, ws_id),
                        !.responded = @ \cup {[ws_id |-> ws_id, rsp |-> entry.rsp]}]

RECURSIVE finish_watch_sets(_, _)
finish_watch_sets(st, ws_ids) ==
    IF ws_ids = <<>> THEN st
    ELSE finish_watch_sets(finish_watch_set(st, Head(ws_ids)), Tail(ws_ids))

\* Lines 462-485.
message_controller_watch_set_finished ==
    /\ ControllerHas("WatchSetFinished")
    /\ mailbox' = Tail(mailbox)
    /\ controller_responses' = Tail(controller_responses)
    /\ LET ws_ids == Head(controller_responses).ws_ids
           st == finish_watch_sets(
                     [installed_watch_sets |-> installed_watch_sets,
                      connection_watch_sets |-> connection_watch_sets,
                      responded |-> watch_responded,
                      panicked |-> watch_panicked], ws_ids)
       IN /\ installed_watch_sets' = st.installed_watch_sets
          /\ connection_watch_sets' = st.connection_watch_sets
          /\ watch_responded' = st.responded
          /\ watch_panicked' = st.panicked
          /\ last_finished' = {ws_ids[i] : i \in DOMAIN ws_ids}
    /\ UNCHANGED <<watching, next_ws_id>>
    /\ UNCHANGED notWatch

\* A session installs a watch set: it enters both maps and the controller watches.
install_watch_set ==
    /\ next_ws_id <= MaxWatchSets
    /\ \E conn_id \in Conns, rsp \in {"StatementDependenciesReady", "AlterSinkReady"} :
          /\ installed_watch_sets' = installed_watch_sets \cup
                 {[ws_id |-> next_ws_id, conn_id |-> conn_id, rsp |-> rsp]}
          /\ connection_watch_sets' =
                 [c \in DOMAIN connection_watch_sets \cup {conn_id} |->
                     IF c = conn_id
                     THEN (IF c \in DOMAIN connection_watch_sets
                           THEN connection_watch_sets[c] ELSE {}) \cup {next_ws_id}
                     ELSE connection_watch_sets[c]]
    /\ watching' = watching \cup {next_ws_id}
    /\ next_ws_id' = next_ws_id + 1
    /\ UNCHANGED <<mailbox, controller_responses, watch_responded, watch_panicked,
                   last_finished>>
    /\ UNCHANGED notWatch

\* The connection closes: its watch sets leave both maps; the controller may still
\* report them.
cancel_connection_watch_sets ==
    /\ \E conn_id \in DOMAIN connection_watch_sets :
          /\ installed_watch_sets' = {e \in installed_watch_sets : e.conn_id /= conn_id}
          /\ connection_watch_sets' =
                 [c \in DOMAIN connection_watch_sets \ {conn_id} |-> connection_watch_sets[c]]
    /\ UNCHANGED <<mailbox, controller_responses, watching, next_ws_id, watch_responded,
                   watch_panicked, last_finished>>
    /\ UNCHANGED notWatch

\* The controller reports some of the watch sets it watches as finished.
controller_watch_sets_finished ==
    /\ \E done \in SUBSET watching :
          /\ done /= {}
          /\ controller_responses' =
                 Append(controller_responses, WatchSetFinished(Ascending(done)))
          /\ watching' = watching \ done
    /\ mailbox' = Append(mailbox, ControllerReadyMsg)
    /\ UNCHANGED <<installed_watch_sets, connection_watch_sets, next_ws_id,
                   watch_responded, watch_panicked, last_finished>>
    /\ UNCHANGED notWatch

InitWatch ==
    /\ installed_watch_sets = {}
    /\ connection_watch_sets = [c \in {} |-> {}]
    /\ controller_responses = <<>>
    /\ watching = {}
    /\ next_ws_id = 1
    /\ watch_responded = {}
    /\ watch_panicked = FALSE
    /\ last_finished = {}

\* ------------------------------------------------------------- subscribes
SinkIds == {1, 2}

\* Antichains of timestamps: the empty frontier or one timestamp.
Frontiers == {<<>>, <<0>>, <<3>>}

\* The updates of a batch: rows (time, diff) in the order the cursor produced them,
\* or an error.
BatchUpdates ==
    {[ok |-> TRUE, rows |-> <<>>, text |-> ""],
     [ok |-> TRUE, rows |-> <<[time |-> 2, diff |-> 1], [time |-> 1, diff |-> -1],
                             [time |-> 2, diff |-> -1]>>, text |-> ""],
     [ok |-> FALSE, rows |-> <<>>, text |-> "boom"]}

SubscribeResponses ==
    {[kind |-> "DroppedAt", upper |-> <<>>, updates |-> [ok |-> TRUE, rows |-> <<>>,
                                                          text |-> ""]]}
    \cup {[kind |-> "Batch", upper |-> upper, updates |-> updates] :
              upper \in Frontiers, updates \in BatchUpdates}

\* rows.sort_by_key(|(time, _, _)| *time): a stable sort.
RECURSIVE sort_by_time(_)
sort_by_time(rows) ==
    IF rows = <<>> THEN <<>>
    ELSE LET least == CHOOSE i \in DOMAIN rows :
                          /\ \A j \in DOMAIN rows : rows[i].time <= rows[j].time
                          /\ \A j \in 1..(i - 1) : rows[j].time /= rows[i].time
         IN <<rows[least]>>
            \o sort_by_time(SubSeq(rows, 1, least - 1) \o SubSeq(rows, least + 1, Len(rows)))

\* Lines 105-131: a row as the client gets it.
pack_row(sub, update) ==
    [time |-> update.time,
     progress |-> IF sub.emit_progress THEN "false" ELSE "absent",
     diff |-> update.diff]

\* Lines 108-112: every row lies beyond the as-of of the subscribe.
rows_beyond_as_of(sub, rows) ==
    \A i \in DOMAIN rows :
        IF sub.as_of.strict THEN sub.as_of.frontier[1] < rows[i].time
        ELSE sub.as_of.frontier[1] <= rows[i].time

\* Lines 63-85: the progress message for a frontier, none for the empty one.
send_progress_message(sub, upper) ==
    IF upper /= <<>>
    THEN <<[kind |-> "Rows",
            rows |-> <<[time |-> upper[1], progress |-> "true", diff |-> "null"]>>]>>
    ELSE <<>>

\* A mutation of batch_finished: a subscribe whose client is gone is finished too.
batch_finished_when_client_gone(upper, updates, receiver_alive) ==
    upper = <<>> \/ ~receiver_alive

\* Line 154.
batch_finished(upper, updates, receiver_alive) == upper = <<>>

\* Lines 90-161: what the client is sent and whether the sink should be removed.
process_response(sub, response, receiver_alive) ==
    IF response.kind = "DroppedAt"
    THEN [finished |-> TRUE, sent |-> <<>>, panicked |-> FALSE]
    ELSE LET updates == response.updates
             rows == sort_by_time(updates.rows)
             first == IF updates.ok
                      THEN <<[kind |-> "Rows",
                              rows |-> [i \in DOMAIN rows |-> pack_row(sub, rows[i])]]>>
                      ELSE <<[kind |-> "Error", text |-> updates.text]>>
             progress == IF sub.emit_progress /\ response.upper /= sub.as_of.frontier
                         THEN send_progress_message(sub, response.upper)
                         ELSE <<>>
         IN IF updates.ok /\ ~rows_beyond_as_of(sub, rows)
            THEN [finished |-> FALSE, sent |-> <<>>, panicked |-> TRUE]
            ELSE [finished |-> batch_finished(response.upper, updates, receiver_alive),
                  sent |-> IF receiver_alive THEN first \o progress ELSE <<>>,
                  panicked |-> FALSE]

SubscribeResponseMsg(sink_id, response) ==
    [kind |-> "SubscribeResponse", sink_id |-> sink_id, response |-> response]

NoResponse == [kind |-> "None", upper |-> <<>>,
               updates |-> [ok |-> TRUE, rows |-> <<>>, text |-> ""]]

\* Lines 392-415.  A finished subscribe is retired; a response for an introspection
\* subscribe goes to its own handler; one for no subscribe at all is logged.
message_controller_subscribe_response ==
    /\ ControllerHas("SubscribeResponse")
    /\ mailbox' = Tail(mailbox)
    /\ controller_responses' = Tail(controller_responses)
    /\ LET sink_id == Head(controller_responses).sink_id
           response == Head(controller_responses).response
       IN IF sink_id \in DOMAIN active_compute_sinks
          THEN LET result == process_response(active_compute_sinks[sink_id], response,
                                              channel_open[sink_id])
               IN /\ active_compute_sinks' =
                         IF result.finished
                         THEN [s \in DOMAIN active_compute_sinks \ {sink_id} |->
                                  active_compute_sinks[s]]
                         ELSE active_compute_sinks
                  /\ last_subscribe' =
                         [sink_id |-> sink_id, response |-> response, branch |-> "active",
                          channel_open |-> channel_open[sink_id],
                          finished |-> result.finished, sent |-> result.sent,
                          panicked |-> result.panicked]
          ELSE /\ UNCHANGED active_compute_sinks
               /\ last_subscribe' =
                      [sink_id |-> sink_id, response |-> response,
                       branch |-> IF sink_id \in introspection_subscribes
                                  THEN "introspection" ELSE "nonexistent",
                       channel_open |-> channel_open[sink_id],
                       finished |-> FALSE, sent |-> <<>>, panicked |-> FALSE]
    /\ UNCHANGED <<introspection_subscribes, channel_open, sub_responses>>
    /\ UNCHANGED notSub

\* A session starts a SUBSCRIBE, with or without PROGRESS, as of timestamp 0.
add_active_subscribe ==
    /\ \E sink_id \in SinkIds \ (DOMAIN active_compute_sinks \cup introspection_subscribes),
          emit_progress \in BOOLEAN, strict \in BOOLEAN :
          /\ active_compute_sinks' =
                 [s \in DOMAIN active_compute_sinks \cup {sink_id} |->
                     IF s = sink_id
                     THEN [emit_progress |-> emit_progress,
                           as_of |-> [frontier |-> <<0>>, strict |-> strict]]
                     ELSE active_compute_sinks[s]]
          /\ channel_open' = [channel_open EXCEPT ![sink_id] = TRUE]
    /\ UNCHANGED <<mailbox, controller_responses, introspection_subscribes, sub_responses,
                   last_subscribe>>
    /\ UNCHANGED notSub

\* The coordinator installs an introspection subscribe.
add_introspection_subscribe ==
    /\ \E sink_id \in SinkIds \ (DOMAIN active_compute_sinks \cup introspection_subscribes) :
          introspection_subscribes' = introspection_subscribes \cup {sink_id}
    /\ UNCHANGED <<mailbox, controller_responses, active_compute_sinks, channel_open,
                   sub_responses, last_subscribe>>
    /\ UNCHANGED notSub

\* The client of a subscribe goes away: the receiver of its channel is dropped.
client_disconnect ==
    /\ \E sink_id \in DOMAIN active_compute_sinks :
          /\ channel_open[sink_id]
          /\ channel_open' = [channel_open EXCEPT ![sink_id] = FALSE]
    /\ UNCHANGED <<mailbox, controller_responses, active_compute_sinks,
                   introspection_subscribes, sub_responses, last_subscribe>>
    /\ UNCHANGED notSub

\* The controller has a response of a subscribe ready.
controller_subscribe_response ==
    /\ sub_responses < MaxSubResponses
    /\ sub_responses' = sub_responses + 1
    /\ \E sink_id \in SinkIds, response \in SubscribeResponses :
          controller_responses' =
              Append(controller_responses, SubscribeResponseMsg(sink_id, response))
    /\ mailbox' = Append(mailbox, ControllerReadyMsg)
    /\ UNCHANGED <<active_compute_sinks, introspection_subscribes, channel_open,
                   last_subscribe>>
    /\ UNCHANGED notSub

InitSub ==
    /\ active_compute_sinks = [s \in {} |-> 0]
    /\ introspection_subscribes = {}
    /\ channel_open = [s \in SinkIds |-> TRUE]
    /\ sub_responses = 0
    /\ last_subscribe = [sink_id |-> 0, response |-> NoResponse, branch |-> "None",
                         channel_open |-> TRUE, finished |-> FALSE, sent |-> <<>>,
                         panicked |-> FALSE]

\* ----------------------------------------------------------- dispatch loop
\* Messages whose handlers touch none of the state above.
PlainKinds == {"AdvanceTimelines", "DrainStatementLog", "CheckSchedulingPolicies"}

PlainMsg(kind, seqno) == [kind |-> kind, seqno |-> seqno]

\* The arm of the match in handle_message that runs for a message.
handle_message(msg) ==
    CASE msg.kind = "AdvanceTimelines" -> "advance_timelines"
      [] msg.kind = "DrainStatementLog" -> "drain_statement_log"
      [] msg.kind = "CheckSchedulingPolicies" -> "check_scheduling_policies"
      [] OTHER -> "other"

\* internal_cmd_rx.recv(): the oldest message in the mailbox.
recv(mb) == [msg |-> Head(mb), rest |-> Tail(mb)]

\* A mutation of loop_idle: the loop does not wait for the handler it started.
loop_never_waits(active) == TRUE

\* The loop awaits handle_message before it receives again.
loop_idle(active) == active = {}

\* Some producer posts a message.
post_plain_message ==
    /\ plain_posted < MaxMessages
    /\ plain_posted' = plain_posted + 1
    /\ \E kind \in PlainKinds : mailbox' = Append(mailbox, PlainMsg(kind, plain_posted + 1))
    /\ UNCHANGED <<active_handlers, handlers_started, handlers_done>>
    /\ UNCHANGED notLoop

\* The loop takes the next message and starts handle_message on it.
loop_recv ==
    /\ mailbox /= <<>>
    /\ Head(mailbox).kind \in PlainKinds
    /\ loop_idle(active_handlers)
    /\ LET next == recv(mailbox)
       IN /\ mailbox' = next.rest
          /\ active_handlers' = active_handlers \cup {next.msg.seqno}
          /\ handlers_started' = Append(handlers_started,
                 [seqno |-> next.msg.seqno, handler |-> handle_message(next.msg),
                  kind |-> next.msg.kind])
    /\ UNCHANGED <<plain_posted, handlers_done>>
    /\ UNCHANGED notLoop

\* The future handle_message returned is done; the handler may have posted a
\* message of its own.
handle_message_done ==
    /\ \E seqno \in active_handlers :
          /\ active_handlers' = active_handlers \ {seqno}
          /\ handlers_done' = Append(handlers_done, seqno)
    /\ \/ UNCHANGED <<mailbox, plain_posted>>
       \/ /\ plain_posted < MaxMessages
          /\ plain_posted' = plain_posted + 1
          /\ \E kind \in PlainKinds :
                mailbox' = Append(mailbox, PlainMsg(kind, plain_posted + 1))
    /\ UNCHANGED handlers_started
    /\ UNCHANGED notLoop

InitLoop ==
    /\ plain_posted = 0
    /\ active_handlers = {}
    /\ handlers_started = <<>>
    /\ handlers_done = <<>>

\* ----------------------------------------------------------- replica metrics
ReplicaIds == 1..MaxReplicas

\* Vec<ServiceProcessMetrics>: one reading per process of the replica.  The
\* processes of a replica report the same reading.
MetricsValues == {[p \in Processes |-> reading] : reading \in 0..MaxMetric}

\* Option<..>: None and Some(x).
None == <<>>
Some(x) == <<x>>

\* An entry of transient_replica_metadata: missing from the map, the tombstone
\* None, or Some(metadata) with the metrics last reported, if any.
NoEntry == [state |-> "missing", metrics |-> None]
Tombstone == [state |-> "tombstone", metrics |-> None]
Metadata(metrics) == [state |-> "live", metrics |-> metrics]

MetricsRows == [replica_id : ReplicaIds, process_id : Processes, value : 0..MaxMetric]

ComputeReplicaMetricsMsg(replica_id, new) ==
    [kind |-> "ComputeReplicaMetrics", replica_id |-> replica_id, new |-> new]

\* pack_replica_metric_updates: one row per process, each with the diff.
pack_replica_metric_updates(replica_id, metrics, diff) ==
    [i \in 1..Cardinality(Processes) |->
        [row |-> [replica_id |-> replica_id, process_id |-> i - 1,
                  value |-> metrics[i - 1]],
         diff |-> diff]]

\* Lines 427-430: entry(replica_id).or_insert_with(|| Some(Default::default())).
or_insert_default(metadata, replica_id) ==
    IF metadata[replica_id] = NoEntry
    THEN [metadata EXCEPT ![replica_id] = Metadata(None)]
    ELSE metadata

\* A mutation of metrics_changed: every response counts as a change.
metrics_changed_always(old, new) == TRUE

\* Line 437: old.as_ref() != Some(&new)
metrics_changed(old, new) == old /= Some(new)

\* A mutation of replica_metric_updates: the old metrics are not retracted.
replica_metric_updates_insert_only(replica_id, old, new) ==
    pack_replica_metric_updates(replica_id, new, 1)

\* Lines 438-454: the retraction of the old metrics, if there were any, chained
\* with the insertion of the new.
replica_metric_updates(replica_id, old, new) ==
    (IF old = None THEN <<>> ELSE pack_replica_metric_updates(replica_id, old[1], -1))
    \o pack_replica_metric_updates(replica_id, new, 1)

\* A mutation of on_tombstone: the tombstone is taken for a replica without
\* metrics and brought back to life.
on_tombstone_revives(metadata, replica_id) ==
    [metadata EXCEPT ![replica_id] = Metadata(None)]

\* Lines 431-433: `None => return`, the map is as it was.
on_tombstone(metadata, replica_id) == metadata

\* Lines 426-461.
message_controller_replica_metrics ==
    /\ ControllerHas("ComputeReplicaMetrics")
    /\ mailbox' = Tail(mailbox)
    /\ controller_responses' = Tail(controller_responses)
    /\ LET replica_id == Head(controller_responses).replica_id
           new == Head(controller_responses).new
           before == transient_replica_metadata[replica_id]
           entry == or_insert_default(transient_replica_metadata, replica_id)
       IN IF entry[replica_id] = Tombstone
          THEN /\ transient_replica_metadata' = on_tombstone(entry, replica_id)
               /\ last_metrics' = [ran |-> TRUE, replica_id |-> replica_id, new |-> new,
                                   before |-> before, emitted |-> <<>>,
                                   after |-> on_tombstone(entry, replica_id)[replica_id]]
               /\ UNCHANGED metrics_background
          ELSE LET old == entry[replica_id].metrics
                   updates == IF metrics_changed(old, new)
                              THEN <<replica_metric_updates(replica_id, old, new)>>
                              ELSE <<>>
               IN /\ transient_replica_metadata' =
                         [entry EXCEPT ![replica_id] = Metadata(Some(new))]
                  /\ metrics_background' = metrics_background \o updates
                  /\ last_metrics' = [ran |-> TRUE, replica_id |-> replica_id, new |-> new,
                                      before |-> before, emitted |-> updates,
                                      after |-> Metadata(Some(new))]
    /\ UNCHANGED <<metrics_relation, metrics_sent>>
    /\ UNCHANGED notMetrics

\* builtin_table_update().background(updates): the batches are written in the
\* order they were handed over.
metrics_background_write ==
    /\ metrics_background /= <<>>
    /\ metrics_relation' = builtin_table_update_execute(metrics_relation,
                                                        Head(metrics_background))
    /\ metrics_background' = Tail(metrics_background)
    /\ UNCHANGED <<mailbox, controller_responses, transient_replica_metadata, metrics_sent,
                   last_metrics>>
    /\ UNCHANGED notMetrics

\* The controller has the metrics of a replica ready.
controller_replica_metrics ==
    /\ metrics_sent < MaxMetricsResponses
    /\ metrics_sent' = metrics_sent + 1
    /\ \E replica_id \in ReplicaIds, new \in MetricsValues :
          controller_responses' =
              Append(controller_responses, ComputeReplicaMetricsMsg(replica_id, new))
    /\ mailbox' = Append(mailbox, ControllerReadyMsg)
    /\ UNCHANGED <<transient_replica_metadata, metrics_background, metrics_relation,
                   last_metrics>>
    /\ UNCHANGED notMetrics

\* A replica is created: its metadata starts without metrics.
create_replica_metadata ==
    /\ \E replica_id \in ReplicaIds :
          /\ transient_replica_metadata[replica_id] = NoEntry
          /\ transient_replica_metadata' =
                 [transient_replica_metadata EXCEPT ![replica_id] = Metadata(None)]
    /\ UNCHANGED <<mailbox, controller_responses, metrics_background, metrics_relation,
                   metrics_sent, last_metrics>>
    /\ UNCHANGED notMetrics

\* A replica is dropped: the tombstone takes the place of its metadata and the
\* rows of its metrics are retracted.
drop_replica_metadata ==
    /\ \E replica_id \in ReplicaIds :
          /\ transient_replica_metadata[replica_id].state = "live"
          /\ transient_replica_metadata' =
                 [transient_replica_metadata EXCEPT ![replica_id] = Tombstone]
          /\ LET old == transient_replica_metadata[replica_id].metrics
             IN metrics_background' =
                    IF old = None THEN metrics_background
                    ELSE Append(metrics_background,
                                pack_replica_metric_updates(replica_id, old[1], -1))
    /\ UNCHANGED <<mailbox, controller_responses, metrics_relation, metrics_sent,
                   last_metrics>>
    /\ UNCHANGED notMetrics

InitMetrics ==
    /\ transient_replica_metadata =
           [r \in ReplicaIds |-> NoEntry]
    /\ metrics_background = <<>>
    /\ metrics_relation = [row \in MetricsRows |-> 0]
    /\ metrics_sent = 0
    /\ last_metrics = [ran |-> FALSE, replica_id |-> 1, new |-> [p \in Processes |-> 0],
                       before |-> NoEntry, emitted |-> <<>>, after |-> NoEntry]

\* ------------------------------------------- the next collection instant
\* The computation of lines 353-368 for a seed, an interval and a current
\* timestamp: the offset drawn, the instant of the next collection and the sleep.
collection_schedule(seed, interval, now_ts) ==
    [ran |-> TRUE,
     interval |-> interval,
     now_ts |-> now_ts,
     offset |-> gen_range(seed, interval),
     next_collection_ts |-> next_collection_ts(seed, interval, now_ts),
     underflow |-> next_collection_ts(seed, interval, now_ts) < now_ts,
     next_collection_interval |-> next_collection_ts(seed, interval, now_ts) - now_ts]

NoSchedule ==
    [ran |-> FALSE, interval |-> 1, now_ts |-> 0, offset |-> 0, next_collection_ts |-> 0,
     underflow |-> FALSE, next_collection_interval |-> 0]

\* The coordinator of some deployment computes its next collection instant.
compute_collection_schedule ==
    /\ \E seed \in 0..MaxSeed, interval \in 1..MaxInterval, now_ts \in 0..MaxNow :
          last_schedule' = collection_schedule(seed, interval, now_ts)
    /\ UNCHANGED <<mailbox, notSchedule>>

InitSchedule == last_schedule = NoSchedule

InitLock ==
    /\ write_lock_wait_group = <<>>
    /\ write_lock = FALSE
    /\ lock_tasks = 0
    /\ session_guard = {}
    /\ gc_guard = 0
    /\ next_seq = 1
    /\ gc_requests = 0
    /\ retired = <<>>
    /\ sequenced = <<>>
    /\ dequeued = <<>>
    /\ last_grant = [outcome |-> "None", ready |-> NoDeferred]

\* The deferred plans depend on the one object the catalog starts with.
InitCoord ==
    /\ mailbox = <<>>
    /\ catalog = {1}
    /\ InitLock
    /\ InitReads
    /\ InitCluster
    /\ InitStaged
    /\ InitConn
    /\ InitUsage
    /\ InitWatch
    /\ InitSub
    /\ InitLoop
    /\ InitPassVars
    /\ InitSchedule
    /\ InitMetrics

Init == InitCoord /\ read_only = FALSE /\ organization_id = 1

\* The coordinator may also boot with the controller in read-only mode.
InitBoot == InitCoord /\ read_only \in BOOLEAN /\ organization_id = 1

\* The deployments differ in their organization id.
InitDeployment == InitCoord /\ read_only = FALSE /\ organization_id \in OrganizationIds

NextLock ==
    \/ message_write_lock_grant
    \/ group_commit_apply
    \/ sequence_write_acquire
    \/ sequence_write_defer
    \/ try_group_commit_acquire
    \/ try_group_commit_defer
    \/ lock_task_grant
    \/ group_commit_post_apply
    \/ session_clear_transaction
    \/ cancel_pending_write
    \/ catalog_drop

SpecLock == Init /\ [][NextLock]_vars

\* The write-lock actions with at most MaxFairStmts statements issued.
NextLockFair == NextLock /\ next_seq' - 1 - gc_requests' <= MaxFairStmts

\* The loop keeps taking messages, lock tasks run, group commits finish and
\* sessions end their transactions.
SpecLockFair ==
    /\ Init /\ [][NextLockFair]_vars
    /\ WF_vars(message_write_lock_grant)
    /\ WF_vars(group_commit_apply)
    /\ WF_vars(group_commit_post_apply)
    /\ WF_vars(session_clear_transaction)
    /\ WF_vars(lock_task_grant)

NextReads ==
    \/ message_linearize_reads
    \/ wakeup_task_fire
    \/ enqueue_timeline_read
    \/ enqueue_no_timestamp_read
    \/ oracle_advance

SpecReads == Init /\ [][NextReads]_vars

\* The loop takes the next message, sleeping tasks wake up, the oracles advance.
\* The read actions with at most MaxFairReads reads enqueued.
NextReadsFair == NextReads /\ reads_enqueued' <= MaxFairReads

\* The loop keeps taking messages, sleeping tasks wake up, the oracles advance.
SpecReadsFair ==
    /\ Init /\ [][NextReadsFair]_vars
    /\ WF_vars(message_linearize_reads)
    /\ WF_vars(wakeup_task_fire)
    /\ WF_vars(oracle_advance)

\* The pass one step at a time.  No read is enqueued while the handler runs,
\* which holds the coordinator exclusively; tasks and the oracle move while the
\* handler is idle or suspended at the await of its loop.  Only the wall-clock
\* oracle advances: the runs have no writes to move the oracle of User.
NextPass ==
    \/ pass_begin
    \/ pass_visit
    \/ pass_retire
    \/ pass_spawn
    \/ pass_return
    \/ (wakeup_task_fire /\ pass_phase \in {"idle", "loop"})
    \/ (/\ enqueue_timeline_read
        /\ pass_phase = "idle"
        /\ reads_enqueued' <= Cardinality(Conns))
    \/ (/\ enqueue_no_timestamp_read
        /\ pass_phase = "idle"
        /\ reads_enqueued' <= Cardinality(Conns))
    \/ (/\ oracle_advance
        /\ pass_phase \in {"idle", "loop"}
        /\ oracle'["User"] = oracle["User"])

SpecPass == Init /\ [][NextPass]_vars

NextSchedule == compute_collection_schedule

NextMetrics ==
    \/ message_controller_replica_metrics
    \/ metrics_background_write
    \/ controller_replica_metrics
    \/ create_replica_metadata
    \/ drop_replica_metadata

SpecMetrics == Init /\ [][NextMetrics]_vars

SpecSchedule == Init /\ [][NextSchedule]_vars

NextCluster ==
    \/ message_cluster_event
    \/ controller_cluster_event
    \/ drop_replica

SpecCluster == InitBoot /\ [][NextCluster]_vars

NextStaged ==
    \/ message_purified_statement_ready
    \/ execute_statement
    \/ purification_task_done
    \/ catalog_drop
    \/ catalog_create

SpecStaged == Init /\ [][NextStaged]_vars

NextConn ==
    \/ message_create_connection_validation_ready
    \/ message_alter_connection_validation_ready
    \/ execute_connection_statement
    \/ validation_task_done
    \/ catalog_drop
    \/ catalog_create

SpecConn == Init /\ [][NextConn]_vars

\* Purified statements and connection statements in one run: the three handlers
\* that resume a statement after an asynchronous step, over one catalog.
NextReentry ==
    /\ NextStaged \/ NextConn
    /\ stmts_submitted' + conn_submitted' <= MaxReentryStmts

SpecReentry == Init /\ [][NextReentry]_vars

\* The four handlers that answer a statement or hand it on, in one run: purified
\* statements, connection statements and deferred writes over one catalog.
NextResponse ==
    /\ NextStaged \/ NextConn \/ NextLock
    /\ stmts_submitted' + conn_submitted' + (next_seq' - 1 - gc_requests') <= MaxReentryStmts

SpecResponse == Init /\ [][NextResponse]_vars

NextUsage ==
    \/ schedule_storage_usage_collection
    \/ storage_usage_collection_task
    \/ storage_usage_fetch
    \/ storage_usage_fetch_task
    \/ storage_usage_update
    \/ storage_usage_update_table_updates_task
    \/ coordinator_boot
    \/ coordinator_shutdown
    \/ oracle_advance

SpecUsage == InitDeployment /\ [][NextUsage]_vars

\* The handlers run and the tasks finish; the coordinator may stop for good.
SpecUsageFair ==
    /\ InitDeployment /\ [][NextUsage]_vars
    /\ WF_vars(schedule_storage_usage_collection)
    /\ WF_vars(storage_usage_collection_task)
    /\ WF_vars(storage_usage_fetch)
    /\ WF_vars(storage_usage_fetch_task)
    /\ WF_vars(storage_usage_update)
    /\ WF_vars(storage_usage_update_table_updates_task)

\* The background tasks at shutdown, in one run of the coordinator: the collection
\* cycle and one pending read.
NextShutdown ==
    \/ schedule_storage_usage_collection
    \/ storage_usage_collection_task
    \/ storage_usage_fetch
    \/ storage_usage_fetch_task
    \/ storage_usage_update
    \/ storage_usage_update_table_updates_task
    \/ (coordinator_boot /\ boots' = 1)
    \/ coordinator_shutdown
    \/ message_linearize_reads
    \/ wakeup_task_fire
    \/ (enqueue_timeline_read /\ reads_enqueued' = 1)

SpecShutdown == InitDeployment /\ [][NextShutdown]_vars

NextWatch ==
    \/ message_controller_watch_set_finished
    \/ install_watch_set
    \/ cancel_connection_watch_sets
    \/ controller_watch_sets_finished

SpecWatch == Init /\ [][NextWatch]_vars

NextSub ==
    \/ message_controller_subscribe_response
    \/ add_active_subscribe
    \/ add_introspection_subscribe
    \/ client_disconnect
    \/ controller_subscribe_response

SpecSub == Init /\ [][NextSub]_vars

NextLoop ==
    \/ post_plain_message
    \/ loop_recv
    \/ handle_message_done

SpecLoop == Init /\ [][NextLoop]_vars

\* ------------------------------------------------------ claims: write lock
\* The guards alive: in WriteLockGrant and GroupCommitApply messages, in sessions,
\* in the group commit in progress.
GuardsInMailbox ==
    Cardinality({i \in 1..Len(mailbox) :
                    \/ mailbox[i].kind = "WriteLockGrant"
                    \/ mailbox[i].kind = "GroupCommitApply" /\ mailbox[i].write_lock_guard})
TotalGuards == GuardsInMailbox + Cardinality(session_guard) + gc_guard

\* A step in which the loop handles the WriteLockGrant at the head of the mailbox.
GrantStep == HeadIs("WriteLockGrant") /\ mailbox' = Tail(mailbox)

\* C1: entries leave the deferred queue in arrival order: the arrival numbers of
\* the entries popped by successive grants increase, and every entry still
\* queued arrived after every entry already popped.
C1_FifoOrder ==
    /\ \A i, j \in 1..Len(dequeued) : i < j => dequeued[i].seq < dequeued[j].seq
    /\ \A i \in 1..Len(dequeued), k \in 1..Len(write_lock_wait_group) :
          dequeued[i].seq < write_lock_wait_group[k].seq
    /\ \A i, j \in 1..Len(write_lock_wait_group) :
          i < j => write_lock_wait_group[i].seq < write_lock_wait_group[j].seq

\* Three entries were queued when the first grant arrived, and three grants
\* have popped them.
C1_Witness ==
    /\ Len(dequeued) = 3
    /\ dequeued[1].depth = 3
    /\ write_lock_wait_group = <<>>

\* C2: at most one guard is alive, and one is alive exactly while the mutex is
\* locked.
C2_MutualExclusion ==
    /\ TotalGuards <= 1
    /\ write_lock <=> TotalGuards = 1

\* A grant handed the guard to a session while another task waits for the lock.
C2_Witness ==
    /\ last_grant.outcome = "sequence_plan"
    /\ last_grant.ready.seq \in session_guard
    /\ lock_tasks > 0

\* C3: a grant removes the head of the deferred queue and nothing else.
C3_PopsExactlyOne ==
    [][GrantStep =>
         write_lock_wait_group' = IF write_lock_wait_group = <<>> THEN <<>>
                                  ELSE Tail(write_lock_wait_group)]_vars

\* A grant popped a plan that failed its validity check and left the entries
\* behind it queued.
C3_Witness ==
    /\ last_grant.outcome = "retire_err"
    /\ write_lock_wait_group /= <<>>
    /\ mailbox = <<>>

C5_EmptyGrantNoOp ==
    [][(GrantStep /\ write_lock_wait_group = <<>>)
       =>
       (/\ UNCHANGED <<catalog, write_lock_wait_group, lock_tasks, session_guard,
                       gc_guard, retired, sequenced, dequeued>>
        /\ write_lock
        /\ ~write_lock')]_vars

\* A grant found the queue empty after a cancellation.
C5_Witness ==
    /\ last_grant.outcome = "empty"
    /\ \E i \in 1..Len(retired) : retired[i].result = "Canceled"
    /\ ~write_lock

\* C29: a grant that pops a plain deferred plan whose validity check passes
\* gives the guard to the session of that plan and hands the plan to sequence_plan
\* with an empty set of resolved ids, whatever ids the statement had resolved
\* when it was deferred; nothing is retired.
C29_ValidPlanSequencedNoResolvedIds ==
    [][(/\ GrantStep
        /\ write_lock_wait_group /= <<>>
        /\ Head(write_lock_wait_group).kind = "Plan"
        /\ PlanValidity_check(Head(write_lock_wait_group).validity, catalog))
       =>
       (/\ sequenced' = Append(sequenced, [stmt |-> Head(write_lock_wait_group).seq,
                                           resolved_ids |-> {},
                                           valid |-> TRUE])
        /\ session_guard' = session_guard \cup {Head(write_lock_wait_group).seq}
        /\ retired' = retired
        /\ write_lock')]_vars

\* A deferred plan with a dependency passed its validity check and was sequenced
\* with no resolved ids; its session holds the guard.
C29_Witness ==
    /\ last_grant.outcome = "sequence_plan"
    /\ last_grant.ready.validity /= {}
    /\ sequenced /= <<>>
    /\ sequenced[Len(sequenced)].stmt = last_grant.ready.seq
    /\ sequenced[Len(sequenced)].resolved_ids = {}
    /\ session_guard = {last_grant.ready.seq}

\* C30: a grant that pops a deferred group commit initiates group commit in the
\* same handler with the guard the message carried: the guard moves from the
\* message to the group commit, the lock stays held throughout, and no session
\* receives a guard.
C30_GroupCommitCarriesGuard ==
    [][(/\ GrantStep
        /\ write_lock_wait_group /= <<>>
        /\ Head(write_lock_wait_group).kind = "GroupCommit")
       =>
       (/\ gc_guard' = gc_guard + 1
        /\ GuardsInMailbox' = GuardsInMailbox - 1
        /\ session_guard' = session_guard
        /\ write_lock /\ write_lock'
        /\ TotalGuards' = 1
        /\ UNCHANGED <<retired, sequenced>>)]_vars

\* A grant popped a deferred group commit, which now owns the guard, while a
\* deferred plan waits behind it.
C30_Witness ==
    /\ last_grant.outcome = "group_commit"
    /\ gc_guard = 1
    /\ write_lock
    /\ write_lock_wait_group /= <<>>
    /\ mailbox = <<>>

\* C31: the write lock is never leaked.  Whatever path the grant handler takes,
\* a held lock has exactly one owner that will release it, the lock is released
\* again and again however many grants were handled, and once it is free
\* with nobody waiting it can be acquired anew.
C31_LockNeverLeaked ==
    /\ [](write_lock => TotalGuards = 1)
    /\ [](write_lock => <>(~write_lock))
    /\ []<>(~write_lock /\ lock_tasks = 0 /\ TotalGuards = 0)

\* Grants took every path of the handler but the empty one: a plan that failed
\* its validity check and a deferred group commit were popped, and the lock
\* is free again.
C31_Witness ==
    /\ \E i \in 1..Len(retired) : retired[i].result = "ValidityErr"
    /\ last_grant.outcome = "group_commit"
    /\ Len(dequeued) = 2
    /\ ~write_lock
    /\ mailbox = <<>>

\* ------------------------------------------------ claims: read linearization
\* A step in which the loop handles the LinearizeReads at the head of the mailbox.
PassStep == HeadIs("LinearizeReads") /\ mailbox' = Tail(mailbox)

\* The pass releases the read of connection c.
ReleasedIn(c) ==
    /\ pending_linearize_read_txns[c] /= NoTxn
    /\ pending_linearize_read_txns'[c] = NoTxn

\* C6 as stated: every read on a timeline that a pass releases has a chosen
\* timestamp the oracle of its timeline has reached.
C6_EveryReleasedReadConfirmed ==
    [][PassStep =>
         \A c \in Conns :
            (ReleasedIn(c) /\ pending_linearize_read_txns[c].ctx = "TimelineTimestamp")
            => pending_linearize_read_txns[c].chosen_ts
                   <= oracle[pending_linearize_read_txns[c].timeline]]_vars

\* C6 amended: every read that carries an oracle snapshot and that a pass
\* releases has a chosen timestamp the oracle of its own timeline has reached.
C6_ReleasedReadConfirmed ==
    [][PassStep =>
         \A c \in Conns :
            (/\ ReleasedIn(c)
             /\ pending_linearize_read_txns[c].ctx = "TimelineTimestamp"
             /\ pending_linearize_read_txns[c].has_oracle_ts)
            => pending_linearize_read_txns[c].chosen_ts
                   <= oracle[pending_linearize_read_txns[c].timeline]]_vars

\* A read was kept pending by one pass and released by a later one, on a fresh
\* reading of the oracle.
C6_Witness ==
    \E i \in 1..Len(last_pass.ready) :
       last_pass.ready[i].rule = "oracle" /\ last_pass.ready[i].num_requeues >= 1

LinearizeReadsScheduled ==
    \/ \E i \in 1..Len(mailbox) : mailbox[i].kind = "LinearizeReads"
    \/ wakeup_tasks /= <<>>

\* C7: while a read is pending a LinearizeReads message is in the mailbox or a
\* wake-up is scheduled, and every pending read is eventually released: again
\* and again no read is pending.
C7_ReadLiveness ==
    /\ []((\E c \in Conns : pending_linearize_read_txns[c] /= NoTxn)
          => LinearizeReadsScheduled)
    /\ []<>(\A c \in Conns : pending_linearize_read_txns[c] = NoTxn)

\* A read was kept pending, its wake-up is scheduled and the oracle has
\* caught up with it.
C7_Witness ==
    \E c \in Conns :
       /\ pending_linearize_read_txns[c].ctx = "TimelineTimestamp"
       /\ pending_linearize_read_txns[c].num_requeues >= 1
       /\ pending_linearize_read_txns[c].chosen_ts
              <= oracle[pending_linearize_read_txns[c].timeline]
       /\ wakeup_tasks /= <<>>
       /\ mailbox = <<>>

\* C8: no scheduled wake-up sleeps for more than 1000 ms.
C8_WakeupCapped ==
    \A i \in 1..Len(wakeup_tasks) : wakeup_tasks[i] <= WAKEUP_CAP_MS

\* A wake-up is scheduled for a read whose chosen timestamp is more than 1000 ms
\* ahead of the oracle.
C8_Witness ==
    /\ wakeup_tasks /= <<>>
    /\ \E c \in Conns :
          /\ pending_linearize_read_txns[c].ctx = "TimelineTimestamp"
          /\ pending_linearize_read_txns[c].num_requeues >= 1
          /\ pending_linearize_read_txns[c].chosen_ts
                 - oracle[pending_linearize_read_txns[c].timeline] > WAKEUP_CAP_MS

\* -------------------------------------------------- claims: cluster status
\* The ClusterEvent handler takes a step.
ClusterEventStep == HeadIs("ClusterEvent") /\ mailbox' = Tail(mailbox)

\* The row the relation holds for a stored process status.
StatusRow(replica_id, process_id, process_status) ==
    [replica_id |-> replica_id, process_id |-> process_id,
     status |-> process_status.status, time |-> process_status.time]

\* C9: a ClusterEvent on a known (cluster, replica, process) whose status differs
\* from the stored one emits exactly one retraction (-1) of the old row and exactly
\* one insertion (+1) of the new row, to the buffer in read-only mode and to the
\* relation otherwise; an event with the stored status emits nothing and leaves the
\* status table, stored time included, as it was.
C9_StatusDiffSymmetry ==
    [][(ClusterEventStep /\ ReplicaKnown(cluster_replica_statuses, Head(mailbox).event)) =>
        LET event == Head(mailbox).event
            key == [cluster_id |-> event.cluster_id, replica_id |-> event.replica_id]
            old == cluster_replica_statuses[key][event.process_id]
            old_row == StatusRow(event.replica_id, event.process_id, old)
            new_row == StatusRow(event.replica_id, event.process_id,
                                 [status |-> event.status, time |-> event.time])
            emitted == last_event'.updates
        IN IF event.status /= old.status
           THEN /\ Cardinality({i \in DOMAIN emitted : emitted[i].diff = -1}) = 1
                /\ Cardinality({i \in DOMAIN emitted : emitted[i].diff = 1}) = 1
                /\ \A i \in DOMAIN emitted :
                      /\ emitted[i].diff = -1 => emitted[i].row = old_row
                      /\ emitted[i].diff = 1 => emitted[i].row = new_row
                      /\ emitted[i].diff \in {-1, 1}
                /\ IF read_only
                   THEN /\ buffered_builtin_table_updates' =
                               buffered_builtin_table_updates \o emitted
                        /\ introspection' = introspection
                   ELSE /\ buffered_builtin_table_updates' = buffered_builtin_table_updates
                        /\ \A r \in StatusRows :
                              introspection'[r] = introspection[r]
                                  + (IF r = new_row THEN 1 ELSE 0)
                                  - (IF r = old_row THEN 1 ELSE 0)
           ELSE /\ emitted = <<>>
                /\ UNCHANGED <<cluster_replica_statuses, buffered_builtin_table_updates,
                               introspection>>]_vars

\* A process whose status an earlier event changed has just received an event with
\* the status it already has, at a later time.
C9_Witness ==
    /\ last_event.known
    /\ last_event.updates = <<>>
    /\ TheReplica \in DOMAIN cluster_replica_statuses
    /\ LET stored == cluster_replica_statuses[TheReplica][last_event.event.process_id]
       IN /\ stored.status = last_event.event.status
          /\ stored.status = "NotReady(OomKilled)"
          /\ stored.time >= 1
          /\ stored.time < last_event.event.time

\* ------------------------------------------------ claims: staged sequencing
\* The PurifiedStatementReady handler takes a step.
PurifiedStep == HeadIs("PurifiedStatementReady") /\ mailbox' = Tail(mailbox)

\* C10: when PurifiedStatementReady arrives with a PlanValidity that fails against
\* the current catalog, the handler sequences nothing and retires nothing from the
\* purified result; it runs handle_execute_inner on the original statement, which
\* either retires the statement with its own error or starts over against the
\* current catalog.  So every purified plan that is sequenced depends only on
\* objects the catalog holds at that moment.
C10_StaleResultReplanned ==
    /\ [][(PurifiedStep /\ ~PlanValidity_check(Head(mailbox).plan_validity, catalog)) =>
            LET stmt == Head(mailbox).original_stmt
            IN /\ staged_sequenced' = staged_sequenced
               /\ executions' = [executions EXCEPT ![stmt] = @ + 1]
               /\ \/ /\ catalog = {}
                     /\ staged_retired' = Append(staged_retired,
                            [stmt |-> stmt, result |-> "UnknownObject"])
                     /\ purify_tasks' = purify_tasks
                  \/ /\ catalog /= {}
                     /\ staged_retired' = staged_retired
                     /\ purify_tasks' =
                            purify_tasks \cup {[stmt |-> stmt, plan_validity |-> catalog]}]_vars
    /\ [](\A i \in DOMAIN staged_sequenced : staged_sequenced[i].current)

\* A statement whose first purification went stale was executed again and its plan
\* was sequenced on the object created in the meantime.
C10_Witness ==
    \E i \in DOMAIN staged_sequenced :
        /\ executions[staged_sequenced[i].stmt] >= 2
        /\ 2 \in staged_sequenced[i].resolved_ids
        /\ last_purified.outcome = "sequence_plan"

\* -------------------------------------------- claims: connection validation
\* One of the two connection validation handlers takes a step.
CreateValidationStep ==
    HeadIs("CreateConnectionValidationReady") /\ mailbox' = Tail(mailbox)
AlterValidationStep ==
    HeadIs("AlterConnectionValidationReady") /\ mailbox' = Tail(mailbox)

\* C11: in the create-connection and alter-connection validation handlers a failed
\* PlanValidity re-check starts the statement over against the current catalog and
\* sends the client no error, as long as the object the statement names exists
\* again (so that planning it again would not fail).
C11_StalenessReplanned ==
    [][((CreateValidationStep \/ AlterValidationStep)
            /\ ~PlanValidity_check(Head(mailbox).plan_validity, catalog)
            /\ catalog /= {}) =>
        /\ conn_retired' = conn_retired
        /\ \E task \in validation_tasks' :
              /\ task.stmt = Head(mailbox).connection_gid
              /\ task.plan_validity = catalog]_vars

\* C16: when CreateConnectionValidationReady carries a failed validation and the
\* plan is still valid, the handler asks the secrets controller to delete the
\* secret of connection_gid, creates no connection, and retires the client with the
\* validation error itself, whether the delete succeeded or not.
C16_ValidationErrorReported ==
    [][(CreateValidationStep
            /\ PlanValidity_check(Head(mailbox).plan_validity, catalog)
            /\ Head(mailbox).result \in ValidationErrors) =>
        /\ last_validation'.delete_requested
        /\ last_validation'.stmt = Head(mailbox).connection_gid
        /\ secrets' = IF last_validation'.delete_ok
                      THEN secrets \ {Head(mailbox).connection_gid} ELSE secrets
        /\ connections' = connections
        /\ conn_retired' = Append(conn_retired,
               [stmt |-> Head(mailbox).connection_gid,
                result |-> Head(mailbox).result])]_vars

\* A failed validation was reported although the delete of the secret failed too:
\* the secret is still there.
C16_Witness ==
    /\ last_validation.kind = "Create"
    /\ last_validation.outcome = "retire_err"
    /\ ~last_validation.delete_ok
    /\ last_validation.stmt \in secrets
    /\ conn_retired /= <<>>
    /\ conn_retired[Len(conn_retired)] =
           [stmt |-> last_validation.stmt, result |-> "Err(Auth)"]

\* ------------------------------------------- claims: storage-usage collection
\* The messages of a kind in the mailbox.
InMailbox(kind) == {i \in DOMAIN mailbox : mailbox[i].kind = kind}

\* The elements of the collection cycle that are outstanding: tasks and messages.
UsageOutstanding ==
    Len(usage_sleep_tasks) + usage_fetch_tasks + usage_table_tasks
    + Cardinality(InMailbox("StorageUsageSchedule"))
    + Cardinality(InMailbox("StorageUsageFetch"))
    + Cardinality(InMailbox("StorageUsageUpdate"))

\* C12: starting from one StorageUsageSchedule message, at most one element of the
\* cycle is outstanding in every reachable state (a sleeping task, a
\* StorageUsageFetch, a scan, a StorageUsageUpdate, a table-update task or a
\* StorageUsageSchedule), so no fetch starts before the update before it is over.
C12_NoOverlappingCollections == UsageOutstanding <= 1

\* A second scan of the same run is under way, the first one recorded.
C12_Witness ==
    /\ boots = 1
    /\ usage_fetch_tasks = 1
    /\ storage_usage /= {}
    /\ Cardinality(schedules) >= 2

\* C13: while the mailbox is alive, every StorageUsageSchedule is followed by a
\* StorageUsageFetch, every StorageUsageFetch by a StorageUsageUpdate and every
\* StorageUsageUpdate by a new StorageUsageSchedule, whatever the scan found and
\* whether the catalog transaction committed or failed.
C13_ChainSelfPerpetuating ==
    /\ [](InMailbox("StorageUsageSchedule") /= {} =>
            <>(InMailbox("StorageUsageFetch") /= {} \/ rx_dropped))
    /\ [](InMailbox("StorageUsageFetch") /= {} =>
            <>(InMailbox("StorageUsageUpdate") /= {} \/ rx_dropped))
    /\ [](InMailbox("StorageUsageUpdate") /= {} =>
            <>(InMailbox("StorageUsageSchedule") /= {} \/ rx_dropped))

\* C14: every next-collection instant a deployment computes, in any of its runs, is
\* congruent to the offset drawn from its seed modulo the interval, lies after the
\* timestamp it was computed at and at most one interval later; so two instants of
\* the same deployment are congruent modulo the interval, and equal when computed
\* at the same timestamp.
C14_ScheduleDeterministic ==
    /\ \A a \in schedules :
          /\ a.next_ts % UsageIntervalMs = gen_range(organization_id, UsageIntervalMs)
          /\ a.next_ts > a.now_ts
          /\ a.next_ts - a.now_ts <= UsageIntervalMs
    /\ \A a, b \in schedules :
          /\ a.next_ts % UsageIntervalMs = b.next_ts % UsageIntervalMs
          /\ a.now_ts = b.now_ts => a.next_ts = b.next_ts

\* After a restart the deployment has computed instants at two timestamps, one
\* before and one after the offset within its interval.
C14_Witness ==
    /\ boots = 2
    /\ \E a, b \in schedules :
          /\ a.now_ts < b.now_ts
          /\ a.next_ts < b.next_ts
          /\ a.now_ts % UsageIntervalMs < gen_range(organization_id, UsageIntervalMs)
          /\ b.now_ts % UsageIntervalMs >= gen_range(organization_id, UsageIntervalMs)

\* ------------------------------------------------ claims: background tasks
\* The background tasks alive.
TasksAlive ==
    Len(usage_sleep_tasks) + usage_fetch_tasks + usage_table_tasks + Len(wakeup_tasks)

\* A background task takes its last step: it sends its message and ends.
TaskStep ==
    \/ Len(usage_sleep_tasks') < Len(usage_sleep_tasks)
    \/ usage_fetch_tasks' < usage_fetch_tasks
    \/ usage_table_tasks' < usage_table_tasks
    \/ Len(wakeup_tasks') < Len(wakeup_tasks)

\* C18: a background task (storage-usage sleep, fetch or table update, read
\* wake-up) whose send finds the receiver of the mailbox dropped ends normally:
\* nothing is enqueued, the task is gone, no task takes its place, and it neither
\* fails nor panics.
C18_SendAfterShutdown ==
    /\ [][(TaskStep /\ rx_dropped) =>
            /\ mailbox' = mailbox
            /\ TasksAlive' = TasksAlive - 1
            /\ \A f \in failed_sends' : f.outcome = "done"]_vars
    /\ [](\A f \in failed_sends : f.outcome = "done")

\* The coordinator shut down with a wake-up task and a task of the collection cycle
\* in flight; both have tried to send since.
C18_Witness ==
    /\ rx_dropped
    /\ TasksAlive = 0
    /\ mailbox = <<>>
    /\ \E f \in failed_sends : f.task = "deferred_read_txns"
    /\ \E f \in failed_sends : f.task = "storage_usage_fetch"

\* ------------------------------------------------ claims: watch-set registry
\* The WatchSetFinished handler takes a step.
WatchSetFinishedStep == ControllerHas("WatchSetFinished") /\ mailbox' = Tail(mailbox)

\* The two maps agree and no connection has an empty set.
WatchSetsConsistent(installed, by_conn) ==
    /\ \A c \in DOMAIN by_conn : by_conn[c] /= {}
    /\ \A e \in installed :
          e.conn_id \in DOMAIN by_conn /\ e.ws_id \in by_conn[e.conn_id]
    /\ \A c \in DOMAIN by_conn : \A ws_id \in by_conn[c] :
          \E e \in installed : e.ws_id = ws_id /\ e.conn_id = c

\* C17: after a WatchSetFinished message is handled, every finished id is absent
\* from installed_watch_sets and from the set of every connection, no connection
\* of connection_watch_sets has an empty set, and an id is in installed_watch_sets
\* if and only if it is in the set of its connection.
C17_WatchSetRegistryConsistent ==
    /\ [][WatchSetFinishedStep =>
            /\ \A ws_id \in last_finished' :
                  /\ InstalledEntry(installed_watch_sets', ws_id) = {}
                  /\ \A c \in DOMAIN connection_watch_sets' :
                        ws_id \notin connection_watch_sets'[c]
            /\ WatchSetsConsistent(installed_watch_sets', connection_watch_sets')
            /\ ~watch_panicked']_vars
    /\ [](WatchSetsConsistent(installed_watch_sets, connection_watch_sets))

\* One message finished the last watch set of a connection and one of two of
\* another: the first connection is gone from the map, the second is still there.
C17_Witness ==
    /\ Cardinality(last_finished) = 2
    /\ Cardinality(watch_responded) >= 2
    /\ DOMAIN connection_watch_sets = {2}
    /\ Cardinality(installed_watch_sets) = 1
    /\ \E e \in watch_responded : e.ws_id \in last_finished /\ e.ws_id = 1

\* -------------------------------------------------------- claims: subscribes
\* The SubscribeResponse handler takes a step on an active subscribe.
SubscribeResponseStep ==
    /\ ControllerHas("SubscribeResponse")
    /\ mailbox' = Tail(mailbox)
    /\ Head(controller_responses).sink_id \in DOMAIN active_compute_sinks

\* C20: process_response returns true exactly when the response is DroppedAt or a
\* Batch whose upper frontier is empty, and false for every Batch with a non-empty
\* upper, whether the batch carried rows or an error and whether the client still
\* holds its receiver; the handler retires the subscribe exactly then.
C20_FinishedIffDroppedOrEmptyUpper ==
    [][SubscribeResponseStep =>
        LET sink_id == Head(controller_responses).sink_id
            response == Head(controller_responses).response
            remove == \/ response.kind = "DroppedAt"
                      \/ response.kind = "Batch" /\ response.upper = <<>>
        IN /\ last_subscribe'.finished = remove
           /\ ~last_subscribe'.panicked
           /\ (sink_id \notin DOMAIN active_compute_sinks') = remove]_vars

\* The last batch of a subscribe, an error, reached a subscribe whose client was gone.
C20_Witness ==
    /\ last_subscribe.branch = "active"
    /\ last_subscribe.response.kind = "Batch"
    /\ last_subscribe.response.upper = <<>>
    /\ ~last_subscribe.response.updates.ok
    /\ ~last_subscribe.channel_open
    /\ last_subscribe.finished
    /\ last_subscribe.sink_id \notin DOMAIN active_compute_sinks

\* The state of the coordinator the background tasks have no hand in.
CoreState ==
    <<cluster_replica_statuses, installed_watch_sets, connection_watch_sets,
      pending_linearize_read_txns, write_lock_wait_group, catalog, storage_usage>>

\* C19: every step of a background task (the sleep, the scan, the table update,
\* the read wake-up, each ending with its send) leaves the core state of the
\* coordinator as it was: the cluster status table, the watch-set registry, the
\* pending reads and the deferred write queue change in no step of a task.
C19_TasksLeaveCoreState == [][TaskStep => UNCHANGED CoreState]_vars

\* A wake-up task sent its message while a read was pending, and the pending read
\* was still there afterwards for the handler to look at.
C19_Witness ==
    /\ \E c \in Conns : pending_linearize_read_txns[c] /= NoTxn
    /\ \E c \in Conns : pending_linearize_read_txns[c].num_requeues >= 1
    /\ wakeup_tasks = <<>>
    /\ InMailbox("LinearizeReads") /= {}
    /\ boots = 1
    /\ usage_fetch_tasks = 1

\* ----------------------------------------------------- claims: dispatch loop
\* C15: the loop hands each message to its handler exactly once, in arrival order,
\* and starts no handler before the one before it is done: the n-th handler
\* started is the one of the n-th message posted, at most one handler is active,
\* and a message is in exactly one place: the mailbox, its handler, or done.
C15_OneMessageAtATime ==
    /\ \A i \in DOMAIN handlers_started : handlers_started[i].seqno = i
    /\ \A i \in DOMAIN handlers_done : handlers_done[i] = i
    /\ Cardinality(active_handlers) <= 1
    /\ Len(handlers_started) = Len(handlers_done) + Cardinality(active_handlers)
    /\ Len(mailbox) + Len(handlers_started) = plain_posted
    /\ \A i \in DOMAIN mailbox : mailbox[i].seqno = Len(handlers_started) + i

\* Two messages were handled, the third is being handled, and a fourth waits
\* for that handler to finish.
C15_Witness ==
    /\ Len(handlers_done) = 2
    /\ active_handlers = {3}
    /\ Len(mailbox) = 1
    /\ handlers_started[3].handler = "drain_statement_log"

\* ------------------------------------------- claims: the linearization pass
\* The read the i-th iteration of the running pass visited.
Visited(i) == pass_taken[pass_log[i].conn_id]

\* The read has to be compared with the oracle: it is on a timeline, carries a
\* snapshot, and its chosen timestamp is beyond the snapshot.
NeedsOracle(read_txn) ==
    /\ read_txn.ctx = "TimelineTimestamp"
    /\ read_txn.has_oracle_ts
    /\ read_txn.chosen_ts > read_txn.oracle_ts

\* C21: in one pass the oracle of a timeline is read at most once, however many
\* pending reads share the timeline, and every read of the pass that has to be
\* compared with the oracle is decided against the value the first one cached.
C21_OracleReadOncePerPass ==
    /\ \A t \in Timelines :
          /\ pass_st.oracle_reads[t] <= 1
          /\ Cardinality({i \in DOMAIN pass_log :
                             pass_log[i].asked_oracle /\ Visited(i).timeline = t}) <= 1
    /\ \A i \in DOMAIN pass_log :
          NeedsOracle(Visited(i)) =>
             /\ pass_st.cached_oracle_ts[Visited(i).timeline].cached
             /\ pass_log[i].kept
                    <=> Visited(i).chosen_ts
                            > pass_st.cached_oracle_ts[Visited(i).timeline].ts

\* Two reads of one timeline were compared with the oracle in one pass; the
\* second found the cache filled, although the oracle had moved on since.
C21_Witness ==
    /\ Len(pass_log) = 2
    /\ NeedsOracle(Visited(1)) /\ NeedsOracle(Visited(2))
    /\ Visited(1).timeline = Visited(2).timeline
    /\ pass_log[1].asked_oracle /\ ~pass_log[2].asked_oracle
    /\ oracle[Visited(1).timeline] > pass_st.cached_oracle_ts[Visited(1).timeline].ts

\* The timestamp context of the read has no oracle component.
NoOracleComponent(read_txn) ==
    \/ read_txn.ctx = "NoTimestamp"
    \/ read_txn.ctx = "TimelineTimestamp" /\ ~read_txn.has_oracle_ts

\* The entries of ready_txns of the running pass for connection c.
ReadyEntries(c) == {i \in DOMAIN pass_st.ready_txns : pass_st.ready_txns[i].conn_id = c}

\* C22: a read with no oracle component is released by the first pass that
\* visits it: it is never kept pending, so it is never requeued, the iteration
\* that visits it neither asks the oracle nor writes the cache, and the read
\* goes to ready_txns with its requeue counter as it was.
C22_NoOracleComponentAlwaysReady ==
    /\ \A c \in Conns :
          NoOracleComponent(pending_linearize_read_txns[c])
             => pending_linearize_read_txns[c].num_requeues = 0 /\ not_ready_passes[c] = 0
    /\ \A i \in DOMAIN pass_log :
          NoOracleComponent(Visited(i)) =>
             /\ ~pass_log[i].kept
             /\ ~pass_log[i].asked_oracle
             /\ ~pass_log[i].wrote_cache
             /\ pending_linearize_read_txns[pass_log[i].conn_id] = NoTxn
             /\ \E j \in ReadyEntries(pass_log[i].conn_id) :
                   pass_st.ready_txns[j].txn = Visited(i)

\* A pass visited a read with no timestamp and a timeline read without a
\* snapshot whose chosen timestamp the oracle has not reached; both are ready.
C22_Witness ==
    /\ Len(pass_log) = 2
    /\ Len(pass_st.ready_txns) = 2
    /\ Visited(1).ctx = "NoTimestamp"
    /\ Visited(2).ctx = "TimelineTimestamp"
    /\ ~Visited(2).has_oracle_ts
    /\ Visited(2).chosen_ts > oracle[Visited(2).timeline]

\* The chosen timestamp of the read is within the snapshot it carries.
WithinSnapshot(read_txn) ==
    /\ read_txn.ctx = "TimelineTimestamp"
    /\ read_txn.has_oracle_ts
    /\ read_txn.chosen_ts <= read_txn.oracle_ts

\* C23: a read whose chosen timestamp is <= the oracle snapshot of its own
\* timestamp context is released by the pass, and the iteration that visits it
\* neither reads the oracle of its timeline nor writes the cache of the pass.
C23_SnapshotReadyWithoutOracle ==
    \A i \in DOMAIN pass_log :
       WithinSnapshot(Visited(i)) =>
          /\ ~pass_log[i].kept
          /\ ~pass_log[i].asked_oracle
          /\ ~pass_log[i].wrote_cache
          /\ pending_linearize_read_txns[pass_log[i].conn_id] = NoTxn
          /\ ReadyEntries(pass_log[i].conn_id) /= {}

\* The loop of a pass is done with two reads of one timeline: one within its
\* snapshot, one not; only the second made the pass read the oracle.
C23_Witness ==
    /\ Len(pass_log) = 2
    /\ WithinSnapshot(Visited(1))
    /\ Visited(1).chosen_ts > 0
    /\ NeedsOracle(Visited(2))
    /\ Visited(2).timeline = Visited(1).timeline
    /\ pass_log[2].asked_oracle
    /\ pass_st.oracle_reads[Visited(1).timeline] = 1

\* C24: the requeue counter of a read counts the passes that found it not ready:
\* a pass that keeps the read pending puts it back with its counter raised by
\* exactly one, nothing else changes the counter, and a read a pass releases
\* carries the number of earlier passes that kept it.
C24_RequeueCountsPasses ==
    /\ \A c \in Conns :
          pending_linearize_read_txns[c] /= NoTxn =>
             IF pass_phase = "idle"
             THEN pending_linearize_read_txns[c].num_requeues = not_ready_passes[c]
             ELSE /\ pending_linearize_read_txns[c].num_requeues
                        = pass_taken[c].num_requeues + 1
                  /\ pass_taken[c].num_requeues = not_ready_passes[c]
                  /\ pending_linearize_read_txns[c]
                        = [pass_taken[c] EXCEPT !.num_requeues = @ + 1]
    /\ \A j \in DOMAIN pass_st.ready_txns :
          /\ pass_st.ready_txns[j].txn = pass_taken[pass_st.ready_txns[j].conn_id]
          /\ pass_st.ready_txns[j].txn.num_requeues
                = not_ready_passes[pass_st.ready_txns[j].conn_id]

\* A read chosen ahead of the oracle was kept by one pass; the oracle reached its
\* timestamp and the next pass released it with requeue count 1.
C24_Witness ==
    /\ pass_phase = "retired"
    /\ \E j \in DOMAIN pass_st.ready_txns :
          /\ pass_st.ready_txns[j].rule = "oracle"
          /\ pass_st.ready_txns[j].txn.num_requeues = 1
          /\ pass_st.ready_txns[j].txn.chosen_ts
                = oracle[pass_st.ready_txns[j].txn.timeline]
          /\ released[pass_st.ready_txns[j].conn_id] = 1

\* C25: when reads remain pending after a pass, the delay of the wake-up the pass
\* schedules is min(m, 1000 ms), m being the least, over the reads kept pending,
\* of chosen timestamp minus the oracle timestamp the pass compared the read with.
C25_WakeupAfterLeastWait ==
    (pass_phase = "spawned" /\ pass_st.waits /= <<>>)
       => pass_spawned = <<Min(SeqMin(pass_st.waits), WAKEUP_CAP_MS)>>

\* C26: a pass spawns exactly one wake-up task if reads are pending when its
\* loop is done and none if no read is pending, and a wake-up task that ends has
\* posted exactly one LinearizeReads message.
C26_OneWakeupPerPass ==
    /\ [](pass_phase = "spawned" =>
             Len(pass_spawned) = IF \E c \in Conns : pending_linearize_read_txns[c] /= NoTxn
                                 THEN 1 ELSE 0)
    /\ [][Len(wakeup_tasks') < Len(wakeup_tasks)
             => /\ Len(wakeup_tasks') = Len(wakeup_tasks) - 1
                /\ mailbox' = Append(mailbox, LinearizeReadsMsg)]_vars

\* A pass released one read, kept another and spawned its wake-up while the
\* wake-up of an earlier pass was still asleep.
C26_Witness ==
    /\ pass_phase = "spawned"
    /\ Len(pass_st.ready_txns) = 1
    /\ Len(pass_log) = 2
    /\ Len(pass_spawned) = 1
    /\ Len(wakeup_tasks) = 2

C28_CachingConservative ==
    \A i \in DOMAIN pass_log : ~pass_log[i].kept => pass_log[i].fresh_ready

\* The first read of a pass was kept on a fresh reading of the oracle; the
\* oracle then moved on, and the second read of the timeline was released on the
\* cached timestamp.
C28_Witness ==
    /\ Len(pass_log) = 2
    /\ pass_log[1].asked_oracle /\ pass_log[1].kept
    /\ NeedsOracle(Visited(2))
    /\ ~pass_log[2].asked_oracle /\ ~pass_log[2].kept
    /\ Visited(2).chosen_ts > 0
    /\ oracle[Visited(2).timeline] > pass_st.cached_oracle_ts[Visited(2).timeline].ts

\* ----------------------------------------- claims: cluster status, continued
\* The ClusterEvent at the head of the mailbox changes the status of a process
\* of a replica the table holds.
StatusChangingEvent ==
    /\ ReplicaKnown(cluster_replica_statuses, Head(mailbox).event)
    /\ Head(mailbox).event.status
          /= cluster_replica_statuses[[cluster_id |-> Head(mailbox).event.cluster_id,
                                       replica_id |-> Head(mailbox).event.replica_id]]
                                     [Head(mailbox).event.process_id].status

\* C32: in read-only mode a status-changing ClusterEvent applies nothing to the
\* introspection relation: the retraction of the old row and then the insertion
\* of the new row are appended to buffered_builtin_table_updates, and the status
\* table takes the new status and time; outside read-only mode the two are
\* applied to the relation as one batch and the buffer stays as it was.
C32_ReadOnlyBuffersUpdates ==
    [][(ClusterEventStep /\ StatusChangingEvent) =>
        LET event == Head(mailbox).event
            key == [cluster_id |-> event.cluster_id, replica_id |-> event.replica_id]
            old == cluster_replica_statuses[key][event.process_id]
            new == [status |-> event.status, time |-> event.time]
            pair == <<[row |-> StatusRow(event.replica_id, event.process_id, old),
                       diff |-> -1],
                      [row |-> StatusRow(event.replica_id, event.process_id, new),
                       diff |-> 1]>>
        IN /\ cluster_replica_statuses' =
                  [cluster_replica_statuses EXCEPT ![key][event.process_id] = new]
           /\ IF read_only
              THEN /\ introspection' = introspection
                   /\ buffered_builtin_table_updates' = buffered_builtin_table_updates \o pair
              ELSE /\ buffered_builtin_table_updates' = buffered_builtin_table_updates
                   /\ introspection' = builtin_table_update_execute(introspection, pair)]_vars

\* Two status changes were handled in read-only mode: four updates are buffered,
\* the relation still holds what provisioning left, the table has moved on.
C32_Witness ==
    /\ read_only
    /\ Len(buffered_builtin_table_updates) = 4
    /\ buffered_builtin_table_updates[3].diff = -1
    /\ buffered_builtin_table_updates[3].row.time = 1
    /\ \A r \in StatusRows :
          introspection[r] = IF r.status = "NotReady(None)" /\ r.time = 0 THEN 1 ELSE 0
    /\ cluster_replica_statuses[TheReplica][last_event.event.process_id].time = 2

\* The status of the replica as a whole, as the table holds it; "dropped" when
\* the table does not hold the replica.
AggregateStatus(statuses, event) ==
    IF ReplicaKnown(statuses, event)
    THEN cluster_replica_status(statuses[[cluster_id |-> event.cluster_id,
                                          replica_id |-> event.replica_id]])
    ELSE "dropped"

\* C33: a ClusterEvent broadcasts a ClusterReplicaStatusChanged notice iff the
\* status of the replica, computed over all its processes, is not the same before
\* and after the event; an event with the status the process already has emits
\* neither updates nor a notice.
C33_NoticeIffAggregateChanged ==
    [][ClusterEventStep =>
        /\ last_event'.notice
              <=> AggregateStatus(cluster_replica_statuses, Head(mailbox).event)
                     /= AggregateStatus(cluster_replica_statuses', Head(mailbox).event)
        /\ (ReplicaKnown(cluster_replica_statuses, Head(mailbox).event)
            /\ ~StatusChangingEvent)
              => last_event'.updates = <<>> /\ ~last_event'.notice]_vars

\* The status of one process changed from NotReady to Ready while the other is
\* still NotReady: the pair of updates was emitted, no notice was broadcast.
C33_Witness ==
    /\ last_event.known
    /\ Len(last_event.updates) = 2
    /\ last_event.event.status = "Ready"
    /\ ~last_event.notice
    /\ TheReplica \in DOMAIN cluster_replica_statuses
    /\ cluster_replica_status(cluster_replica_statuses[TheReplica]) = "NotReady(None)"

\* The rows of the status table: one for each process of each replica it holds.
TableRows ==
    {StatusRow(k.replica_id, p, cluster_replica_statuses[k][p]) :
        k \in DOMAIN cluster_replica_statuses, p \in Processes}

\* C34: outside read-only mode the introspection relation mirrors the status
\* table: after any sequence of ClusterEvent messages the relation holds exactly
\* the rows of the table, each once, and no row has a negative multiplicity or
\* one above 1; nothing is buffered.
C34_RelationMirrorsTable ==
    ~read_only =>
       /\ \A r \in StatusRows :
             introspection[r] = IF r \in TableRows THEN 1 ELSE 0
       /\ buffered_builtin_table_updates = <<>>

\* Three events changed statuses of both processes outside read-only mode, the
\* last of them a change of a status changed before.
C34_Witness ==
    /\ ~read_only
    /\ mailbox = <<>>
    /\ last_event.event.time = 3
    /\ Len(last_event.updates) = 2
    /\ last_event.updates[1].row.time \in {1, 2}
    /\ \A p \in Processes : cluster_replica_statuses[TheReplica][p].time >= 1

\* C35: a ClusterEvent for a (cluster, replica) the status table does not hold
\* is ignored: the table, the introspection relation and the buffered updates
\* stay as they were and no notice is broadcast.  No ClusterEvent creates a key
\* of the table.
C35_UnknownReplicaIgnored ==
    [][ClusterEventStep =>
        /\ DOMAIN cluster_replica_statuses' = DOMAIN cluster_replica_statuses
        /\ ~ReplicaKnown(cluster_replica_statuses, Head(mailbox).event)
              => /\ UNCHANGED <<cluster_replica_statuses, introspection,
                                buffered_builtin_table_updates>>
                 /\ last_event'.updates = <<>>
                 /\ ~last_event'.notice]_vars

\* The replica was dropped with an event for it in flight; the event was handled
\* and the table is still empty.
C35_Witness ==
    /\ ~last_event.known
    /\ last_event.event.time >= 1
    /\ last_event.event.status = "Ready"
    /\ DOMAIN cluster_replica_statuses = {}
    /\ \A r \in StatusRows : introspection[r] = 0

\* ------------------------------------------- claims: next collection instant
\* C36: for every current timestamp, interval I > 0 and offset o in [0, I), the
\* next collection instant is (now - now mod I) + o if that is after now and
\* (now - now mod I) + o + I otherwise; so it is after now, at most I after now,
\* congruent to o modulo I, and next - now does not underflow.
C36_NextCollectionInstant ==
    last_schedule.ran =>
       LET now == last_schedule.now_ts
           I == last_schedule.interval
           o == last_schedule.offset
           boundary == now - (now % I)
           next == last_schedule.next_collection_ts
       IN /\ o \in 0..(I - 1)
          /\ next = IF boundary + o > now THEN boundary + o ELSE boundary + o + I
          /\ next > now
          /\ next - now <= I
          /\ next % I = o
          /\ ~last_schedule.underflow
          /\ last_schedule.next_collection_interval = next - now

\* The instant was computed exactly at a collection instant that is not an
\* interval boundary: the next one is a full interval away.
C36_Witness ==
    /\ last_schedule.ran
    /\ last_schedule.offset > 0
    /\ last_schedule.now_ts > last_schedule.interval
    /\ last_schedule.now_ts % last_schedule.interval = last_schedule.offset
    /\ last_schedule.next_collection_interval = last_schedule.interval

\* --------------------------------------- claims: staged sequencing, continued
\* C37: for a purified ALTER SOURCE or CREATE SINK whose plan is still valid, the
\* resolved ids the statement is planned with and the ones handed to sequence_plan
\* are the dependencies of the unified purified statement; the ids resolved before
\* purification, which the plan validity carries, are not what is sequenced.
C37_ResolvedIdsRecomputed ==
    [][(/\ PurifiedStep
        /\ PlanValidity_check(Head(mailbox).plan_validity, catalog)
        /\ Head(mailbox).result = "Ok"
        /\ Head(mailbox).purified.kind \in UnifiedKinds) =>
        LET ids == Head(mailbox).purified.deps
        IN /\ last_purified'.planned_with = ids
           /\ \/ /\ last_purified'.outcome = "retire_plan_err"
                 /\ staged_sequenced' = staged_sequenced
              \/ /\ last_purified'.outcome = "sequence_plan"
                 /\ staged_sequenced' = Append(staged_sequenced,
                        [stmt |-> Head(mailbox).original_stmt, resolved_ids |-> ids,
                         current |-> TRUE])]_vars

\* A purified ALTER SOURCE or CREATE SINK was sequenced whose purification had
\* removed the dependency of the original statement and added another.
C37_Witness ==
    /\ last_purified.outcome = "sequence_plan"
    /\ last_purified.planned_with = {PurificationDep}
    /\ staged_sequenced /= <<>>
    /\ staged_sequenced[Len(staged_sequenced)].resolved_ids = {PurificationDep}
    /\ staged_sequenced[Len(staged_sequenced)].stmt = last_purified.stmt

\* ------------------------------------------ claims: the re-entry handlers
\* One of the three handlers that resume a statement takes a step on a message
\* whose plan validity fails and whose asynchronous result is an error.
StaleAndFailed(step, errors) ==
    /\ step
    /\ ~PlanValidity_check(Head(mailbox).plan_validity, catalog)
    /\ Head(mailbox).result \in errors

\* C38: in the purified-statement, create-connection and alter-connection handlers
\* the validity of the plan is checked before the asynchronous result is looked
\* at: when the plan is stale and the result is an error too, the purified
\* statement is executed again from the original statement and the connection
\* statement is retired with the validity error; the error of the asynchronous
\* step is not what the client gets.
C38_ValidityCheckedFirst ==
    /\ [][StaleAndFailed(PurifiedStep, {"Err"}) =>
            /\ last_purified'.outcome = "handle_execute_inner"
            /\ executions' = [executions EXCEPT ![Head(mailbox).original_stmt] = @ + 1]
            /\ staged_sequenced' = staged_sequenced
            /\ \/ staged_retired' = staged_retired
               \/ staged_retired' = Append(staged_retired,
                      [stmt |-> Head(mailbox).original_stmt, result |-> "UnknownObject"])]_vars
    /\ [][StaleAndFailed(CreateValidationStep \/ AlterValidationStep, ValidationErrors) =>
            /\ last_validation'.outcome = "retire_validity_err"
            /\ connections' = connections
            /\ conn_retired' = Append(conn_retired,
                   [stmt |-> Head(mailbox).connection_gid,
                    result |-> "Err(PlanValidity)"])]_vars

\* The create-connection handler met a stale plan whose validation had failed as
\* well, and the client got the validity error.
C38_Witness ==
    /\ last_validation.kind = "Create"
    /\ last_validation.failed
    /\ last_validation.outcome = "retire_validity_err"
    /\ conn_retired /= <<>>
    /\ conn_retired[Len(conn_retired)] =
           [stmt |-> last_validation.stmt, result |-> "Err(PlanValidity)"]

\* The purified-statement handler met a stale plan whose purification had failed
\* as well, and the original statement was executed again.
StalePurifiedFailed ==
    /\ last_purified.failed
    /\ ~last_purified.valid
    /\ last_purified.outcome = "handle_execute_inner"
    /\ executions[last_purified.stmt] >= 2

\* The same for the alter-connection handler.
StaleAlterFailed ==
    /\ last_validation.kind = "Alter"
    /\ last_validation.failed
    /\ last_validation.outcome = "retire_validity_err"

\* ---------------------------------------------- claims: one response each
\* How many entries of a log are about the statement.
EntriesFor(log, stmt) == Cardinality({i \in DOMAIN log : log[i].stmt = stmt})

\* Where the client context of a purified statement is: with a purification
\* task, in a PurifiedStatementReady message, retired, or handed to sequence_plan.
PurifiedCtxHolders(stmt) ==
    Cardinality({t \in purify_tasks : t.stmt = stmt})
    + Cardinality({i \in DOMAIN mailbox : /\ mailbox[i].kind = "PurifiedStatementReady"
                                          /\ mailbox[i].original_stmt = stmt})
    + EntriesFor(staged_retired, stmt)
    + EntriesFor(staged_sequenced, stmt)

\* The same for a connection statement: with a validation task, in one of the
\* two validation messages, or retired.
ConnCtxHolders(stmt) ==
    Cardinality({t \in validation_tasks : t.stmt = stmt})
    + Cardinality({i \in DOMAIN mailbox :
                      /\ mailbox[i].kind \in {"CreateConnectionValidationReady",
                                              "AlterConnectionValidationReady"}
                      /\ mailbox[i].connection_gid = stmt})
    + EntriesFor(conn_retired, stmt)

\* The same for a write statement that was deferred: in the queue, retired, or
\* handed to sequence_plan.
DeferredCtxHolders(stmt) ==
    Cardinality({i \in DOMAIN write_lock_wait_group :
                    /\ write_lock_wait_group[i].kind = "Plan"
                    /\ write_lock_wait_group[i].seq = stmt})
    + EntriesFor(retired, stmt)
    + EntriesFor(sequenced, stmt)

\* C39: on every path of the purified-statement, create-connection,
\* alter-connection and write-lock-grant handlers the client context of the
\* statement is retired once by the handler or handed to one continuation
\* (executing the statement again, or sequence_plan): at any moment it is in
\* exactly one place, never retired twice and never dropped without a response.
C39_ExactlyOneResponse ==
    /\ \A stmt \in 1..stmts_submitted : PurifiedCtxHolders(stmt) = 1
    /\ \A stmt \in 1..conn_submitted : ConnCtxHolders(stmt) = 1
    /\ \A stmt \in 1..(next_seq - 1) : DeferredCtxHolders(stmt) <= 1
    /\ last_grant.ready.kind = "Plan" =>
          /\ DeferredCtxHolders(last_grant.ready.seq) = 1
          /\ EntriesFor(retired, last_grant.ready.seq)
             + EntriesFor(sequenced, last_grant.ready.seq) = 1
    /\ last_purified.outcome \in {"retire_err", "retire_plan_err"} =>
          EntriesFor(staged_retired, last_purified.stmt) = 1
    /\ last_purified.outcome = "sequence_plan" =>
          EntriesFor(staged_sequenced, last_purified.stmt) = 1
    /\ last_validation.outcome /= "None" =>
          EntriesFor(conn_retired, last_validation.stmt) = 1

\* A create-connection statement whose plan had gone stale was retired, once.
C39_Witness ==
    /\ last_validation.kind = "Create"
    /\ last_validation.outcome = "retire_validity_err"
    /\ EntriesFor(conn_retired, last_validation.stmt) = 1
    /\ ConnCtxHolders(last_validation.stmt) = 1

\* A deferred write was granted the lock and handed to sequence_plan.
DeferredSequencedOnce ==
    /\ last_grant.outcome = "sequence_plan"
    /\ EntriesFor(sequenced, last_grant.ready.seq) = 1

\* A purified statement was executed again and then sequenced.
PurifiedSequencedOnce ==
    /\ last_purified.outcome = "sequence_plan"
    /\ executions[last_purified.stmt] >= 2
    /\ PurifiedCtxHolders(last_purified.stmt) = 1

\* ------------------------------------------------- claims: replica metrics
\* The batches handed to the background write that are yet to be written, as one.
RECURSIVE Flatten(_)
Flatten(batches) ==
    IF batches = <<>> THEN <<>> ELSE Head(batches) \o Flatten(Tail(batches))

\* The relation once every batch handed over so far is written.
NetMetricsRelation ==
    builtin_table_update_execute(metrics_relation, Flatten(metrics_background))

\* The rows the stored metrics of a replica stand for.
StoredRows(replica_id) ==
    LET stored == transient_replica_metadata[replica_id].metrics
    IN IF stored = None THEN {}
       ELSE {[replica_id |-> replica_id, process_id |-> p, value |-> stored[1][p]] :
                p \in Processes}

\* C40: for a ComputeReplicaMetrics response: if the entry of the replica is the
\* tombstone nothing changes and nothing is emitted; if the new metrics are the
\* stored ones nothing is emitted; otherwise the new metrics are stored and one
\* batch is emitted, the retraction of the old metrics (none when there were
\* none) followed by the insertion of the new.  So the net content of the metrics
\* relation for a live replica is its stored metrics, each row once.
C40_MetricsDiffs ==
    /\ last_metrics.ran =>
          LET r == last_metrics.replica_id
              new == last_metrics.new
              old == last_metrics.before.metrics
          IN IF last_metrics.before = Tombstone
             THEN last_metrics.after = Tombstone /\ last_metrics.emitted = <<>>
             ELSE /\ last_metrics.after = Metadata(Some(new))
                  /\ last_metrics.emitted =
                        IF old = Some(new) THEN <<>>
                        ELSE <<(IF old = None THEN <<>>
                                ELSE pack_replica_metric_updates(r, old[1], -1))
                               \o pack_replica_metric_updates(r, new, 1)>>
    /\ \A row \in MetricsRows :
          transient_replica_metadata[row.replica_id].state = "live" =>
             NetMetricsRelation[row] = IF row \in StoredRows(row.replica_id) THEN 1 ELSE 0

\* The metrics of a live replica changed from one reading to another: the old
\* rows were retracted and the new inserted, and the write has been done.
C40_Witness ==
    /\ last_metrics.ran
    /\ last_metrics.before.state = "live"
    /\ last_metrics.before.metrics /= None
    /\ last_metrics.before.metrics /= Some(last_metrics.new)
    /\ Len(last_metrics.emitted) = 1
    /\ Len(last_metrics.emitted[1]) = 2 * Cardinality(Processes)
    /\ metrics_background = <<>>
    /\ transient_replica_metadata[last_metrics.replica_id] =
           Metadata(Some(last_metrics.new))

\* A response for a dropped replica met the tombstone.
MetricsMetTombstone == last_metrics.ran /\ last_metrics.before = Tombstone

\* A response repeated the stored metrics.
MetricsUnchanged ==
    /\ last_metrics.ran
    /\ last_metrics.before.metrics = Some(last_metrics.new)

\* A response for a replica the map had no entry for.
MetricsMetNoEntry == last_metrics.ran /\ last_metrics.before = NoEntry

====
